---- MODULE Spec2Model ----
(***************************************************************************)
(* streaming-json-reader: the resumable tokenizer / tree builder           *)
(* (IncrementalParser), the JSON-Pointer matcher (JSONPointerParser) and   *)
(* the streaming orchestrator (StreamingJsonParser).                       *)
(*                                                                         *)
(* Text is a sequence of one-character strings.  A JavaScript value is a   *)
(* record [t, s, n, k, c]:                                                 *)
(*   t  the kind: "undefined" "null" "true" "false" "number" "nan"         *)
(*      "string" "object" "array" "function", or "ref" (a reference to a   *)
(*      container of the parser's live tree, n being its identity)         *)
(*   s  the characters of a string                                         *)
(*   n  the integer of a number; the identity of a container of the live   *)
(*      tree and of a "ref" to it (0 for any other container: a copy has   *)
(*      an identity of its own, which nothing else holds)                  *)
(*   k  the own keys of an object, in property order                       *)
(*   c  the children of an object (aligned with k) or array                *)
(* Numbers are integers: no number token of the model holds '.', 'e', '+'. *)
(***************************************************************************)
EXTENDS Integers, Sequences, FiniteSets, TLC

(***************************************************************************)
(* Values                                                                  *)
(***************************************************************************)
Val(t, s, n, k, c) == [t |-> t, s |-> s, n |-> n, k |-> k, c |-> c]

Undefined == Val("undefined", <<>>, 0, <<>>, <<>>)
Null == Val("null", <<>>, 0, <<>>, <<>>)
True == Val("true", <<>>, 0, <<>>, <<>>)
False == Val("false", <<>>, 0, <<>>, <<>>)
NaN == Val("nan", <<>>, 0, <<>>, <<>>)
Num(i) == Val("number", <<>>, i, <<>>, <<>>)
Str(chars) == Val("string", chars, 0, <<>>, <<>>)
Obj(keys, vals) == Val("object", <<>>, 0, keys, vals)
Arr(vals) == Val("array", <<>>, 0, <<>>, vals)
Ref(id) == Val("ref", <<>>, id, <<>>, <<>>)
Function == Val("function", <<>>, 0, <<>>, <<>>)

IsContainer(v) == v.t \in {"object", "array"}

(***************************************************************************)
(* utils/character-utils                                                   *)
(***************************************************************************)
DigitChars == <<"0", "1", "2", "3", "4", "5", "6", "7", "8", "9">>

isWhitespace(ch) == ch \in {" ", "\n", "\r", "\t"}

isDigit(ch) == \E d \in 1..10 : DigitChars[d] = ch

isNumberChar(ch) == isDigit(ch) \/ ch \in {"-", "+", "e", "E", "."}

DigitValue(ch) == (CHOOSE d \in 1..10 : DigitChars[d] = ch) - 1

(***************************************************************************)
(* JavaScript primitives the parser relies on                              *)
(***************************************************************************)
RECURSIVE DigitsValue(_)
DigitsValue(chars) ==
  IF Len(chars) = 0 THEN 0
  ELSE 10 * DigitsValue(SubSeq(chars, 1, Len(chars) - 1)) + DigitValue(chars[Len(chars)])

AllDigits(chars) == Len(chars) > 0 /\ \A i \in 1..Len(chars) : isDigit(chars[i])

\* Number(token) for a token of digits and '-': an optional sign and digits
\* give the integer, anything else is NaN.
NumberOf(token) ==
  IF AllDigits(token) THEN Num(DigitsValue(token))
  ELSE IF Len(token) > 1 /\ token[1] = "-" /\ AllDigits(Tail(token))
       THEN Num(0 - DigitsValue(Tail(token)))
       ELSE NaN

RECURSIVE NatToChars(_)
NatToChars(i) ==
  IF i < 10 THEN <<DigitChars[i + 1]>>
  ELSE NatToChars(i \div 10) \o <<DigitChars[(i % 10) + 1]>>

IntToChars(i) == IF i < 0 THEN <<"-">> \o NatToChars(0 - i) ELSE NatToChars(i)

\* The character an escape sequence \x stands for; "" when \x is no escape.
\* (\b is given as its own symbol; \uXXXX is handled by the caller.)
EscapeChar(x) ==
  CASE x = "\"" -> "\""
    [] x = "\\" -> "\\"
    [] x = "/" -> "/"
    [] x = "b" -> "<BS>"
    [] x = "f" -> "\f"
    [] x = "n" -> "\n"
    [] x = "r" -> "\r"
    [] x = "t" -> "\t"
    [] OTHER -> ""

isHex(ch) == isDigit(ch) \/ ch \in {"a", "b", "c", "d", "e", "f", "A", "B", "C", "D", "E", "F"}

isControl(ch) == ch \in {"\n", "\r", "\t", "\f", "<BS>"}

\* JSON.parse('"' + body + '"'): the decoded string, or a SyntaxError.
\* [ok, s].  The result is the decoding of the characters from position i.
RECURSIVE DecodeFrom(_, _, _)
DecodeFrom(body, i, acc) ==
  IF i > Len(body) THEN [ok |-> TRUE, s |-> acc]
  ELSE IF body[i] = "\"" \/ isControl(body[i]) THEN [ok |-> FALSE, s |-> <<>>]
  ELSE IF body[i] # "\\" THEN DecodeFrom(body, i + 1, Append(acc, body[i]))
  ELSE IF i = Len(body) THEN [ok |-> FALSE, s |-> <<>>]
  ELSE IF body[i + 1] = "u"
       THEN IF i + 5 <= Len(body) /\ \A j \in (i + 2)..(i + 5) : isHex(body[j])
            THEN DecodeFrom(body, i + 6,
                   Append(acc, "\\u" \o body[i + 2] \o body[i + 3] \o body[i + 4] \o body[i + 5]))
            ELSE [ok |-> FALSE, s |-> <<>>]
  ELSE IF EscapeChar(body[i + 1]) = "" THEN [ok |-> FALSE, s |-> <<>>]
  ELSE DecodeFrom(body, i + 2, Append(acc, EscapeChar(body[i + 1])))

JSONParseString(body) == DecodeFrom(body, 1, <<>>)

startsWith(word, prefix) ==
  /\ Len(prefix) <= Len(word)
  /\ SubSeq(word, 1, Len(prefix)) = prefix

IndexOf(seq, x) ==
  IF \E i \in 1..Len(seq) : seq[i] = x
  THEN CHOOSE i \in 1..Len(seq) : seq[i] = x /\ \A j \in 1..(i - 1) : seq[j] # x
  ELSE 0

\* key is an array index ("0", "1", ...): such keys come first in property
\* order, ascending; the other keys follow in order of creation.
IsIndexKey(key) == AllDigits(key) /\ NatToChars(DigitsValue(key)) = key

InsertAt(seq, i, x) == SubSeq(seq, 1, i - 1) \o <<x>> \o SubSeq(seq, i, Len(seq))

\* Where a new own key goes in the property order of keys.
KeyPlace(keys, key) ==
  IF ~IsIndexKey(key) THEN Len(keys) + 1
  ELSE 1 + Cardinality({i \in 1..Len(keys) :
                          IsIndexKey(keys[i]) /\ DigitsValue(keys[i]) < DigitsValue(key)})

\* obj[key] = value on an object: an existing own key keeps its place.
ObjSet(o, key, value) ==
  IF IndexOf(o.k, key) > 0
  THEN [o EXCEPT !.c[IndexOf(o.k, key)] = value]
  ELSE [o EXCEPT !.k = InsertAt(@, KeyPlace(o.k, key), key),
                 !.c = InsertAt(@, KeyPlace(o.k, key), value)]

(***************************************************************************)
(* The live tree.  The containers the parser creates are kept in `heap`,   *)
(* a container's identity being its index; a Ref(id) anywhere stands for   *)
(* that very container, so that two holders of Ref(id) share it.           *)
(***************************************************************************)
\* String(v), as used when a value becomes a property key.
RECURSIVE ToStringChars(_, _)
RECURSIVE JoinChars(_, _, _)
JoinChars(heap, items, i) ==
  IF i > Len(items) THEN <<>>
  ELSE (IF i > 1 THEN <<",">> ELSE <<>>)
       \o (IF items[i].t \in {"null", "undefined"} THEN <<>> ELSE ToStringChars(heap, items[i]))
       \o JoinChars(heap, items, i + 1)

ToStringChars(heap, v) ==
  CASE v.t = "string" -> v.s
    [] v.t = "number" -> IntToChars(v.n)
    [] v.t = "nan" -> <<"N", "a", "N">>
    [] v.t = "null" -> <<"n", "u", "l", "l">>
    [] v.t = "true" -> <<"t", "r", "u", "e">>
    [] v.t = "false" -> <<"f", "a", "l", "s", "e">>
    [] v.t = "undefined" -> <<"u", "n", "d", "e", "f", "i", "n", "e", "d">>
    [] v.t = "ref" -> ToStringChars(heap, heap[v.n])
    [] v.t = "array" -> JoinChars(heap, v.c, 1)
    [] OTHER -> <<"[", "o", "b", "j", "e", "c", "t", " ", "O", "b", "j", "e", "c", "t", "]">>

\* A copy of the outermost container only: the children stay shared.
deepCloneShallow(heap, obj) ==
  IF obj.t = "ref" THEN [heap[obj.n] EXCEPT !.n = 0] ELSE obj

\* utils/deep-clone: structuredClone(obj), a tree with no reference into the heap.
RECURSIVE deepClone(_, _)
deepClone(heap, obj) ==
  IF obj.t = "ref" THEN deepClone(heap, heap[obj.n])
  ELSE IF IsContainer(obj)
       THEN [obj EXCEPT !.n = 0,
                        !.c = [i \in 1..Len(obj.c) |-> deepClone(heap, obj.c[i])]]
       ELSE obj

(***************************************************************************)
(* IncrementalParser                                                       *)
(***************************************************************************)
ParserContext(type, value) ==
  [type |-> type, value |-> value, key |-> Undefined,
   state |-> IF type = "object" THEN "expectKeyOrEnd" ELSE "expectValueOrEnd"]

NewIncrementalParser ==
  [stack |-> <<>>, root |-> Undefined, buffer |-> <<>>, state |-> "default",
   token |-> <<>>, escape |-> FALSE, updates |-> <<>>,
   heap |-> <<>>, closedStructures |-> <<>>]

\* The outcome of a call: the parser afterwards and the message of the error
\* thrown ("" when the call returned).
Returned(p) == [p |-> p, thrown |-> ""]
Threw(p, message) == [p |-> p, thrown |-> message]

cloneRoot(p) == deepClone(p.heap, p.root)

enqueueSnapshot(p) == [p EXCEPT !.updates = Append(@, cloneRoot(p))]

pushValue(p, value) ==
  IF Len(p.stack) = 0
  THEN Returned(enqueueSnapshot([p EXCEPT !.root = value]))
  ELSE LET d == Len(p.stack)
           ctx == p.stack[d]
       IN IF ctx.type = "array"
          THEN IF ctx.state # "expectValue" /\ ctx.state # "expectValueOrEnd"
               THEN Threw(p, "Unexpected value in array")
               ELSE Returned(enqueueSnapshot(
                      [p EXCEPT !.heap[ctx.value].c = Append(@, value),
                                !.stack[d].state = "expectCommaOrEnd"]))
          ELSE IF ctx.state = "expectKey" \/ ctx.state = "expectKeyOrEnd"
               THEN Returned([p EXCEPT !.stack[d].key = value,
                                       !.stack[d].state = "expectColon"])
               ELSE IF ctx.state # "expectValue"
                    THEN Threw(p, "Unexpected value in object")
                    ELSE IF ctx.key = Undefined
                         THEN Threw(p, "Object key is undefined")
                         ELSE Returned(enqueueSnapshot(
                                [p EXCEPT !.heap[ctx.value] =
                                              ObjSet(@, ToStringChars(p.heap, ctx.key), value),
                                          !.stack[d].key = Undefined,
                                          !.stack[d].state = "expectCommaOrEnd"]))

\* The container just closed is reported to the orchestrator.
trackClosed(p, id) == [p EXCEPT !.closedStructures = Append(@, Ref(id))]

\* popContext without the snapshot of the close.
popContextSilent(p) ==
  trackClosed([p EXCEPT !.stack = SubSeq(@, 1, Len(@) - 1)], p.stack[Len(p.stack)].value)

popContext(p) ==
  enqueueSnapshot(trackClosed([p EXCEPT !.stack = SubSeq(@, 1, Len(@) - 1)],
                              p.stack[Len(p.stack)].value))

closeStructure(p, ch) ==
  IF Len(p.stack) = 0
  THEN Threw(p, "Unexpected closing bracket")
  ELSE LET ctx == p.stack[Len(p.stack)]
       IN IF ctx.type = "array" /\ ch = "]"
          THEN Returned(popContext(p))
          ELSE IF ctx.type = "object" /\ ch = "}"
               THEN IF ctx.state = "expectColon" \/ ctx.state = "expectValue"
                    THEN Threw(p, "Unexpected closing brace")
                    ELSE Returned(popContext(p))
               ELSE Threw(p, "Mismatched closing bracket")

\* _comma without the test of the state of the context.
commaInAnyState(p) ==
  IF Len(p.stack) = 0
  THEN Threw(p, "Unexpected comma")
  ELSE Returned([p EXCEPT !.stack[Len(p.stack)].state =
                   IF p.stack[Len(p.stack)].type = "object" THEN "expectKey" ELSE "expectValue"])

comma(p) ==
  IF Len(p.stack) = 0
  THEN Threw(p, "Unexpected comma")
  ELSE LET d == Len(p.stack)
           ctx == p.stack[d]
       IN IF ctx.state # "expectCommaOrEnd"
          THEN Threw(p, "Unexpected comma")
          ELSE Returned([p EXCEPT !.stack[d].state =
                           IF ctx.type = "object" THEN "expectKey" ELSE "expectValue"])

\* _colon that also drops the pending key.
colonClearingKey(p) ==
  IF Len(p.stack) = 0
  THEN Threw(p, "Unexpected colon")
  ELSE LET d == Len(p.stack)
           ctx == p.stack[d]
       IN IF ctx.type # "object" \/ ctx.state # "expectColon"
          THEN Threw(p, "Unexpected colon")
          ELSE Returned([p EXCEPT !.stack[d].state = "expectValue",
                                  !.stack[d].key = Undefined])

colon(p) ==
  IF Len(p.stack) = 0
  THEN Threw(p, "Unexpected colon")
  ELSE LET d == Len(p.stack)
           ctx == p.stack[d]
       IN IF ctx.type # "object" \/ ctx.state # "expectColon"
          THEN Threw(p, "Unexpected colon")
          ELSE Returned([p EXCEPT !.stack[d].state = "expectValue"])

\* '{' or '[': a new empty container is placed, then its context is pushed.
openStructure(p, type) ==
  LET id == Len(p.heap) + 1
      q == [p EXCEPT !.heap = Append(@, Val(type, <<>>, id, <<>>, <<>>))]
      r == pushValue(q, Ref(id))
  IN IF r.thrown # "" THEN r
     ELSE Returned([r.p EXCEPT !.stack = Append(@, ParserContext(type, id))])

\* A value was lexed: it is placed and the lexer returns to the default state.
tokenDone(p, value) ==
  LET r == pushValue(p, value)
  IN IF r.thrown # "" THEN r
     ELSE Returned([r.p EXCEPT !.state = "default", !.token = <<>>])

TrueChars == <<"t", "r", "u", "e">>
FalseChars == <<"f", "a", "l", "s", "e">>
NullChars == <<"n", "u", "l", "l">>

\* One pass of the switch in feed on character ch: [p, thrown, i], i being
\* the advance of the index (0 when the character is retried).
Step(r, advance) == [p |-> r.p, thrown |-> r.thrown, i |-> advance]

dispatchDefault(p, ch) ==
  IF isWhitespace(ch) THEN Step(Returned(p), 1)
  ELSE IF ch = "{" THEN Step(openStructure(p, "object"), 1)
  ELSE IF ch = "[" THEN Step(openStructure(p, "array"), 1)
  ELSE IF ch = "}" \/ ch = "]" THEN Step(closeStructure(p, ch), 1)
  ELSE IF ch = "," THEN Step(comma(p), 1)
  ELSE IF ch = ":" THEN Step(colon(p), 1)
  ELSE IF ch = "\"" THEN Step(Returned([p EXCEPT !.state = "string", !.token = <<>>]), 1)
  ELSE IF ch = "-" \/ isDigit(ch)
       THEN Step(Returned([p EXCEPT !.state = "number", !.token = <<ch>>]), 1)
  ELSE IF ch = "t" \/ ch = "f" \/ ch = "n"
       THEN Step(Returned([p EXCEPT !.state = "literal", !.token = <<ch>>]), 1)
  ELSE Step(Threw(p, "Unexpected token " \o ch), 1)

dispatchString(p, ch) ==
  IF p.escape
  THEN Step(Returned([p EXCEPT !.token = Append(@, ch), !.escape = FALSE]), 1)
  ELSE IF ch = "\\" THEN Step(Returned([p EXCEPT !.escape = TRUE]), 1)
  ELSE IF ch = "\""
       THEN LET parsed == JSONParseString(p.token)
            IN IF parsed.ok THEN Step(tokenDone(p, Str(parsed.s)), 1)
               ELSE Step(Threw(p, "SyntaxError"), 1)
  ELSE Step(Returned([p EXCEPT !.token = Append(@, ch)]), 1)

\* case "number" consuming the character that ends the token.
dispatchNumberConsuming(p, ch) ==
  IF isNumberChar(ch)
  THEN Step(Returned([p EXCEPT !.token = Append(@, ch)]), 1)
  ELSE Step(tokenDone(p, NumberOf(p.token)), 1)

dispatchNumber(p, ch) ==
  IF isNumberChar(ch)
  THEN Step(Returned([p EXCEPT !.token = Append(@, ch)]), 1)
  ELSE Step(tokenDone(p, NumberOf(p.token)), 0)

\* case "literal" without the lexical error: any other text stays pending.
dispatchLiteralLenient(p, ch) ==
  LET q == [p EXCEPT !.token = Append(@, ch)]
  IN IF q.token = TrueChars THEN Step(tokenDone(q, True), 1)
     ELSE IF q.token = FalseChars THEN Step(tokenDone(q, False), 1)
     ELSE IF q.token = NullChars THEN Step(tokenDone(q, Null), 1)
     ELSE Step(Returned(q), 1)

dispatchLiteral(p, ch) ==
  LET q == [p EXCEPT !.token = Append(@, ch)]
  IN IF q.token = TrueChars THEN Step(tokenDone(q, True), 1)
     ELSE IF q.token = FalseChars THEN Step(tokenDone(q, False), 1)
     ELSE IF q.token = NullChars THEN Step(tokenDone(q, Null), 1)
     ELSE IF startsWith(TrueChars, q.token) \/ startsWith(FalseChars, q.token)
             \/ startsWith(NullChars, q.token)
          THEN Step(Returned(q), 1)
          ELSE Step(Threw(q, "Unexpected token"), 1)

dispatch(p, ch) ==
  CASE p.state = "default" -> dispatchDefault(p, ch)
    [] p.state = "string" -> dispatchString(p, ch)
    [] p.state = "number" -> dispatchNumber(p, ch)
    [] p.state = "literal" -> dispatchLiteral(p, ch)

RECURSIVE feedLoop(_, _)
feedLoop(p, i) ==
  IF i > Len(p.buffer)
  THEN Returned([p EXCEPT !.buffer = SubSeq(@, i, Len(@))])
  ELSE LET r == dispatch(p, p.buffer[i])
       IN IF r.thrown # "" THEN Threw(r.p, r.thrown)
          ELSE feedLoop(r.p, i + r.i)

feed(p, chunk) == feedLoop([p EXCEPT !.buffer = @ \o chunk], 1)

\* end() without the check of the token state.
endIgnoringToken(p) ==
  IF Len(p.stack) # 0
  THEN Threw(p, "Unexpected end of JSON input")
  ELSE Returned(p)

\* end() without the check of the container stack.
endIgnoringStack(p) ==
  IF p.state = "string" \/ p.state = "number" \/ p.state = "literal"
  THEN Threw(p, "Unexpected end of JSON input")
  ELSE Returned(p)

\* end() that also throws when no value was read, as JSON.parse('') does.
endRequiringValue(p) ==
  IF p.state = "string" \/ p.state = "number" \/ p.state = "literal"
  THEN Threw(p, "Unexpected end of JSON input")
  ELSE IF Len(p.stack) # 0 \/ p.root = Undefined
       THEN Threw(p, "Unexpected end of JSON input")
       ELSE Returned(p)

end(p) ==
  IF p.state = "string" \/ p.state = "number" \/ p.state = "literal"
  THEN Threw(p, "Unexpected end of JSON input")
  ELSE IF Len(p.stack) # 0
       THEN Threw(p, "Unexpected end of JSON input")
       ELSE Returned(p)

collectUpdates(p) == [p |-> [p EXCEPT !.updates = <<>>], list |-> p.updates]

collectClosedStructures(p) ==
  [p |-> [p EXCEPT !.closedStructures = <<>>], list |-> p.closedStructures]

(***************************************************************************)
(* utils/json-pointer and JSONPointerParser                                *)
(***************************************************************************)
\* str.split(sep): the pieces of chars between occurrences of sep.
RECURSIVE SplitFrom(_, _, _, _)
SplitFrom(chars, sep, i, piece) ==
  IF i > Len(chars) THEN <<piece>>
  ELSE IF chars[i] = sep THEN <<piece>> \o SplitFrom(chars, sep, i + 1, <<>>)
  ELSE SplitFrom(chars, sep, i + 1, Append(piece, chars[i]))

Split(chars, sep) == SplitFrom(chars, sep, 1, <<>>)

\* segment.replace(/~x/g, to): every occurrence of '~' x, left to right.
RECURSIVE ReplaceTilde(_, _, _)
ReplaceTilde(chars, x, to) ==
  IF Len(chars) = 0 THEN <<>>
  ELSE IF Len(chars) >= 2 /\ chars[1] = "~" /\ chars[2] = x
       THEN <<to>> \o ReplaceTilde(SubSeq(chars, 3, Len(chars)), x, to)
       ELSE <<chars[1]>> \o ReplaceTilde(Tail(chars), x, to)

decodeSegment(segment) == ReplaceTilde(ReplaceTilde(segment, "1", "/"), "0", "~")

\* parseJsonPointer: [ok, path]; ok is FALSE when it throws.
parseJsonPointer(pointer) ==
  IF Len(pointer) = 0 THEN [ok |-> TRUE, path |-> <<>>]
  ELSE IF pointer = <<"/">> THEN [ok |-> TRUE, path |-> << <<>> >>]
  ELSE IF pointer[1] # "/" THEN [ok |-> FALSE, path |-> <<>>]
  ELSE LET pieces == Split(Tail(pointer), "/")
       IN [ok |-> TRUE, path |-> [i \in 1..Len(pieces) |-> decodeSegment(pieces[i])]]

\* Properties an object or array inherits (a representative part of
\* Object.prototype and Array.prototype): what `key in value` also finds.
ObjectPrototypeKeys == {<<"c", "o", "n", "s", "t", "r", "u", "c", "t", "o", "r">>,
   <<"t", "o", "S", "t", "r", "i", "n", "g">>,
   <<"v", "a", "l", "u", "e", "O", "f">>,
   <<"h", "a", "s", "O", "w", "n", "P", "r", "o", "p", "e", "r", "t", "y">>}

ArrayPrototypeKeys == {<<"p", "u", "s", "h">>, <<"m", "a", "p">>}

Star == <<"*">>

\* key in value, for an object or array value.
HasProperty(value, key) ==
  IF value.t = "object"
  THEN IndexOf(value.k, key) > 0 \/ key \in ObjectPrototypeKeys
  ELSE \/ key = <<"l", "e", "n", "g", "t", "h">>
       \/ key \in ArrayPrototypeKeys \/ key \in ObjectPrototypeKeys
       \/ (AllDigits(key) /\ IntToChars(DigitsValue(key)) = key /\ DigitsValue(key) < Len(value.c))

\* value[key], for a key with key in value.
GetProperty(value, key) ==
  IF value.t = "object" /\ IndexOf(value.k, key) > 0 THEN value.c[IndexOf(value.k, key)]
  ELSE IF value.t = "array" /\ key = <<"l", "e", "n", "g", "t", "h">> THEN Num(Len(value.c))
  ELSE IF value.t = "array" /\ AllDigits(key) THEN value.c[DigitsValue(key) + 1]
  ELSE Function

\* JSONPointerParser.extractRecursive: the matches below `current`, in order.
RECURSIVE extractRecursive(_, _, _)
RECURSIVE extractEach(_, _, _, _)
extractEach(items, i, path, pathIndex) ==
  IF i > Len(items) THEN <<>>
  ELSE (IF items[i] # Undefined THEN extractRecursive(items[i], path, pathIndex + 1) ELSE <<>>)
       \o extractEach(items, i + 1, path, pathIndex)

extractRecursive(current, path, pathIndex) ==
  IF pathIndex > Len(path)
  THEN IF current # Undefined THEN <<current>> ELSE <<>>
  ELSE LET segment == path[pathIndex]
       IN IF segment = Star /\ current.t = "array"
          THEN extractEach(current.c, 1, path, pathIndex)
          ELSE IF current.t = "array" /\ AllDigits(segment)
               THEN IF DigitsValue(segment) < Len(current.c)
                       /\ current.c[DigitsValue(segment) + 1] # Undefined
                    THEN extractRecursive(current.c[DigitsValue(segment) + 1], path, pathIndex + 1)
                    ELSE <<>>
               ELSE IF IsContainer(current) /\ HasProperty(current, segment)
                    THEN extractRecursive(GetProperty(current, segment), path, pathIndex + 1)
                    ELSE <<>>

\* !data || typeof data !== 'object'
NotAnObject(data) == ~IsContainer(data)

extractValues(path, data) ==
  IF NotAnObject(data) THEN <<>> ELSE extractRecursive(data, path, 1)

\* utils/completeness-checker
RECURSIVE isComplete(_)
isComplete(value) ==
  IF value.t \in {"null", "undefined"} THEN FALSE
  ELSE IF ~IsContainer(value) THEN TRUE
  ELSE IF value.t = "array"
       THEN \A i \in 1..Len(value.c) : value.c[i] = Undefined \/ isComplete(value.c[i])
       ELSE \A i \in 1..Len(value.c) : isComplete(value.c[i])

\* context.closedStructures.has(value): the closed-set holds identities.
IsClosed(value, closedStructures) == value.n \in closedStructures

\* isStructurallyComplete without the descent into the nested structures.
isStructurallyCompleteShallow(value, closedStructures) ==
  IF value.t \in {"null", "undefined"} THEN FALSE
  ELSE IF ~IsContainer(value) THEN TRUE
  ELSE IsClosed(value, closedStructures)

RECURSIVE isStructurallyComplete(_, _)
isStructurallyComplete(value, closedStructures) ==
  IF value.t \in {"null", "undefined"} THEN FALSE
  ELSE IF ~IsContainer(value) THEN TRUE
  ELSE IF ~IsClosed(value, closedStructures) THEN FALSE
  ELSE IF value.t = "array"
       THEN \A i \in 1..Len(value.c) :
              value.c[i] = Undefined \/ isStructurallyComplete(value.c[i], closedStructures)
       ELSE \A i \in 1..Len(value.c) : isStructurallyComplete(value.c[i], closedStructures)

\* JSON.parse(JSON.stringify(value)) for a value JSON.stringify can render:
\* NaN becomes null; an undefined or function member is dropped from an
\* object and becomes null in an array.
Unrenderable(value) == value.t \in {"undefined", "function"}

RECURSIVE jsonRoundTrip(_)
RECURSIVE roundTripMembers(_, _, _)
roundTripMembers(value, i, acc) ==
  IF i > Len(value.c) THEN acc
  ELSE roundTripMembers(value, i + 1,
         IF Unrenderable(value.c[i]) THEN acc
         ELSE [acc EXCEPT !.k = Append(@, value.k[i]),
                          !.c = Append(@, jsonRoundTrip(value.c[i]))])

jsonRoundTrip(value) ==
  IF value.t = "nan" THEN Null
  ELSE IF value.t = "array"
       THEN Arr([i \in 1..Len(value.c) |->
               IF Unrenderable(value.c[i]) THEN Null ELSE jsonRoundTrip(value.c[i])])
  ELSE IF value.t = "object" THEN roundTripMembers(value, 1, Obj(<<>>, <<>>))
  ELSE value

\* !previousValue
Falsy(value) ==
  \/ value.t \in {"undefined", "null", "false", "nan"}
  \/ (value.t = "number" /\ value.n = 0)
  \/ (value.t = "string" /\ value.s = <<>>)

\* JSON.stringify(a) !== JSON.stringify(b)
StringifyDiffers(a, b) ==
  IF Unrenderable(a) \/ Unrenderable(b) THEN Unrenderable(a) # Unrenderable(b)
  ELSE jsonRoundTrip(a) # jsonRoundTrip(b)

NewJSONPointerParser(path, waitForStructuralCompletion) ==
  [parsedPath |-> path, lastReturnedValues |-> <<>>, closedStructures |-> {},
   waitForStructuralCompletion |-> waitForStructuralCompletion]

\* closedStructure is the container itself, held by reference.
markStructureClosed(pp, closedStructure) ==
  IF closedStructure.t = "ref" \/ IsContainer(closedStructure)
  THEN [pp EXCEPT !.closedStructures = @ \cup {closedStructure.n}]
  ELSE pp

\* lastReturnedValues[i], undefined beyond the end.
PreviousValue(last, i) == IF i <= Len(last) THEN last[i] ELSE Undefined

\* lastReturnedValues[i] = value
StoreAt(last, i, value) ==
  [j \in 1..(IF i > Len(last) THEN i ELSE Len(last)) |->
     IF j = i THEN value ELSE PreviousValue(last, j)]

completeValues(pp, data) ==
  LET all == extractValues(pp.parsedPath, data)
  IN SelectSeq(all, LAMBDA v :
       IF pp.waitForStructuralCompletion
       THEN isComplete(v) /\ isStructurallyComplete(v, pp.closedStructures)
       ELSE isComplete(v))

\* JSON.parse(undefined), reached when JSON.stringify cannot render the value.
SyntaxErrorMessage == "SyntaxError"

\* The loop of getNewCompletedValues from position i: [pp, list, at, thrown],
\* where at[j] is the position i at which list[j] was found new.
RECURSIVE diffFrom(_, _, _, _, _)
diffFrom(pp, complete, i, list, at) ==
  IF i > Len(complete) THEN [pp |-> pp, list |-> list, at |-> at, thrown |-> ""]
  ELSE LET currentValue == complete[i]
           previousValue == PreviousValue(pp.lastReturnedValues, i)
       IN IF Falsy(previousValue) \/ StringifyDiffers(currentValue, previousValue)
          THEN IF Unrenderable(currentValue)
               THEN [pp |-> pp, list |-> list, at |-> at, thrown |-> SyntaxErrorMessage]
               ELSE diffFrom([pp EXCEPT !.lastReturnedValues =
                                StoreAt(@, i, jsonRoundTrip(currentValue))],
                             complete, i + 1, Append(list, currentValue), Append(at, i))
          ELSE diffFrom(pp, complete, i + 1, list, at)

getNewCompletedValues(pp, data) ==
  IF NotAnObject(data) THEN [pp |-> pp, list |-> <<>>, at |-> <<>>, thrown |-> ""]
  ELSE diffFrom(pp, completeValues(pp, data), 1, <<>>, <<>>)

(***************************************************************************)
(* StreamingJsonParser: node navigation helpers                            *)
(***************************************************************************)
ObjectType == <<"o", "b", "j", "e", "c", "t">>
ArrayType == <<"a", "r", "r", "a", "y">>
PrimitiveType == <<"p", "r", "i", "m", "i", "t", "i", "v", "e">>
UnknownType == <<"u", "n", "k", "n", "o", "w", "n">>

\* A StreamingJsonNode: its path and its type tag.
Node(path, type) == Val("node", path, 0, <<type>>, <<>>)

\* parseInt(segment, 10): [ok, n]; ok is FALSE for NaN.
RECURSIVE DigitPrefix(_)
DigitPrefix(chars) ==
  IF Len(chars) > 0 /\ isDigit(chars[1]) THEN <<chars[1]>> \o DigitPrefix(Tail(chars)) ELSE <<>>

RECURSIVE TrimStart(_)
TrimStart(chars) ==
  IF Len(chars) > 0 /\ isWhitespace(chars[1]) THEN TrimStart(Tail(chars)) ELSE chars

parseInt(segment) ==
  LET t == TrimStart(segment)
      negative == Len(t) > 0 /\ t[1] = "-"
      digits == DigitPrefix(IF Len(t) > 0 /\ t[1] \in {"-", "+"} THEN Tail(t) ELSE t)
  IN IF Len(digits) = 0 THEN [ok |-> FALSE, n |-> 0]
     ELSE [ok |-> TRUE, n |-> IF negative THEN 0 - DigitsValue(digits) ELSE DigitsValue(digits)]

\* pointer.split('/').filter(s => s !== '')
pathSegments(pointer) == SelectSeq(Split(pointer, "/"), LAMBDA piece : piece # <<>>)

\* '/' + currentPath.join('/')
RECURSIVE joinPath(_)
joinPath(currentPath) ==
  IF Len(currentPath) = 0 THEN <<>>
  ELSE IF Len(currentPath) = 1 THEN currentPath[1]
  ELSE currentPath[1] \o <<"/">> \o joinPath(Tail(currentPath))

\* current && typeof current === 'object'
IsObjectLike(current) == IsContainer(current)

\* extractMatchingPaths: traverse, returning the paths it pushes, in order.
RECURSIVE traverse(_, _, _, _)
RECURSIVE traverseEach(_, _, _, _, _)
traverseEach(current, i, segments, currentPath, pointerIndex) ==
  IF i > Len(current.c) THEN <<>>
  ELSE traverse(current.c[i], segments,
                Append(currentPath, IF current.t = "array" THEN NatToChars(i - 1) ELSE current.k[i]),
                pointerIndex + 1)
       \o traverseEach(current, i + 1, segments, currentPath, pointerIndex)

traverse(current, segments, currentPath, pointerIndex) ==
  IF pointerIndex > Len(segments) THEN << <<"/">> \o joinPath(currentPath) >>
  ELSE LET segment == segments[pointerIndex]
       IN IF segment = Star
          THEN IF IsObjectLike(current)
               THEN traverseEach(current, 1, segments, currentPath, pointerIndex)
               ELSE <<>>
          ELSE IF current.t = "array"
               THEN LET index == parseInt(segment)
                    IN IF index.ok /\ index.n >= 0 /\ index.n < Len(current.c)
                       THEN traverse(current.c[index.n + 1], segments,
                                     Append(currentPath, segment), pointerIndex + 1)
                       ELSE <<>>
               ELSE IF IsObjectLike(current) /\ HasProperty(current, segment)
                    THEN traverse(GetProperty(current, segment), segments,
                                  Append(currentPath, segment), pointerIndex + 1)
                    ELSE <<>>

extractMatchingPaths(data, pointer) == traverse(data, pathSegments(pointer), <<>>, 1)

TypeTag(current) ==
  IF current.t = "array" THEN ArrayType
  ELSE IF current.t = "object" THEN ObjectType
  ELSE PrimitiveType

\* The loop of determineNodeType over the segments from index i.
RECURSIVE nodeTypeFrom(_, _, _)
nodeTypeFrom(current, segments, i) ==
  IF i > Len(segments) THEN TypeTag(current)
  ELSE IF ~IsObjectLike(current) THEN UnknownType
  ELSE IF current.t = "array"
       THEN LET index == parseInt(segments[i])
            IN IF ~index.ok \/ index.n < 0 \/ index.n >= Len(current.c) THEN UnknownType
               ELSE nodeTypeFrom(current.c[index.n + 1], segments, i + 1)
       ELSE IF ~HasProperty(current, segments[i]) THEN UnknownType
            ELSE nodeTypeFrom(GetProperty(current, segments[i]), segments, i + 1)

determineNodeType(data, path) ==
  IF Len(path) = 0 THEN TypeTag(data)
  ELSE nodeTypeFrom(data, pathSegments(path), 1)

(***************************************************************************)
(* The reference: JSON.parse(text) on the whole text (RFC 8259, integers). *)
(* A result is [ok, val, next]: next is the index after the value.         *)
(***************************************************************************)
Fail == [ok |-> FALSE, val |-> Undefined, next |-> 0]
Parsed(val, next) == [ok |-> TRUE, val |-> val, next |-> next]

RECURSIVE SkipWs(_, _)
SkipWs(text, i) ==
  IF i <= Len(text) /\ isWhitespace(text[i]) THEN SkipWs(text, i + 1) ELSE i

\* The index of the quote closing the string whose body starts at i; 0 if none.
RECURSIVE ClosingQuote(_, _)
ClosingQuote(text, i) ==
  IF i > Len(text) THEN 0
  ELSE IF text[i] = "\"" THEN i
  ELSE IF text[i] = "\\" THEN ClosingQuote(text, i + 2)
  ELSE ClosingQuote(text, i + 1)

RefString(text, i) ==
  LET j == ClosingQuote(text, i + 1)
      d == JSONParseString(SubSeq(text, i + 1, j - 1))
  IN IF j = 0 \/ ~d.ok THEN Fail ELSE Parsed(Str(d.s), j + 1)

RECURSIVE DigitsEnd(_, _)
DigitsEnd(text, i) ==
  IF i <= Len(text) /\ isDigit(text[i]) THEN DigitsEnd(text, i + 1) ELSE i

RefNumber(text, i) ==
  LET from == IF text[i] = "-" THEN i + 1 ELSE i
      to == DigitsEnd(text, from)
  IN IF to = from \/ (text[from] = "0" /\ to > from + 1)
        \/ (to <= Len(text) /\ text[to] \in {".", "e", "E"})
     THEN Fail
     ELSE Parsed(NumberOf(SubSeq(text, i, to - 1)), to)

Slice(text, from, to) == SubSeq(text, from, IF to > Len(text) THEN Len(text) ELSE to)

RefLiteral(text, i) ==
  IF Slice(text, i, i + 3) = TrueChars THEN Parsed(True, i + 4)
  ELSE IF Slice(text, i, i + 4) = FalseChars THEN Parsed(False, i + 5)
  ELSE IF Slice(text, i, i + 3) = NullChars THEN Parsed(Null, i + 4)
  ELSE Fail

RECURSIVE RefValue(_, _)
RECURSIVE RefElements(_, _, _)
RECURSIVE RefMembers(_, _, _)

\* The elements of an array from index i (after '[' or ','), acc so far.
RefElements(text, i, acc) ==
  LET v == RefValue(text, SkipWs(text, i))
      j == SkipWs(text, v.next)
  IN IF ~v.ok \/ j > Len(text) THEN Fail
     ELSE IF text[j] = "," THEN RefElements(text, j + 1, [acc EXCEPT !.c = Append(@, v.val)])
     ELSE IF text[j] = "]" THEN Parsed([acc EXCEPT !.c = Append(@, v.val)], j + 1)
     ELSE Fail

\* The members of an object from index i (after '{' or ','), acc so far.
RefMembers(text, i, acc) ==
  LET ki == SkipWs(text, i)
      key == IF ki <= Len(text) /\ text[ki] = "\"" THEN RefString(text, ki) ELSE Fail
      ci == SkipWs(text, key.next)
      v == IF key.ok /\ ci <= Len(text) /\ text[ci] = ":"
           THEN RefValue(text, SkipWs(text, ci + 1)) ELSE Fail
      j == SkipWs(text, v.next)
  IN IF ~v.ok \/ j > Len(text) THEN Fail
     ELSE IF text[j] = "," THEN RefMembers(text, j + 1, ObjSet(acc, key.val.s, v.val))
     ELSE IF text[j] = "}" THEN Parsed(ObjSet(acc, key.val.s, v.val), j + 1)
     ELSE Fail

RefValue(text, i) ==
  IF i > Len(text) THEN Fail
  ELSE IF text[i] = "\"" THEN RefString(text, i)
  ELSE IF text[i] = "-" \/ isDigit(text[i]) THEN RefNumber(text, i)
  ELSE IF text[i] = "[" THEN
       LET j == SkipWs(text, i + 1)
       IN IF j <= Len(text) /\ text[j] = "]" THEN Parsed(Arr(<<>>), j + 1)
          ELSE RefElements(text, i + 1, Arr(<<>>))
  ELSE IF text[i] = "{" THEN
       LET j == SkipWs(text, i + 1)
       IN IF j <= Len(text) /\ text[j] = "}" THEN Parsed(Obj(<<>>, <<>>), j + 1)
          ELSE RefMembers(text, i + 1, Obj(<<>>, <<>>))
  ELSE RefLiteral(text, i)

\* [ok, val]: whether text is one well-formed JSON value, and the value.
JSONParse(text) ==
  LET v == RefValue(text, SkipWs(text, 1))
  IN IF v.ok /\ SkipWs(text, v.next) > Len(text) THEN v ELSE Fail

(***************************************************************************)
(* The tokenizer driven directly: a source composes the next fragment one  *)
(* character at a time (Produce) and hands it to feed (Feed); the driver   *)
(* finalizes with end (End) and drains the snapshot queue                  *)
(* (CollectUpdates).  No call follows a call that threw.  The first        *)
(* fragment may instead be one of a few longer openings (FeedOpening), so  *)
(* that the MaxLen characters that follow are spent inside an object.      *)
(***************************************************************************)
MaxLen == 4
MaxChunk == 2

Alphabet == {"{", "}", "[", "]", ",", ":", "\"", "\\", "1", " ", "n", "u", "l"}

Openings == { <<"{", "\"", "a", "\"", ":">> }

VARIABLES
  parser,    \* the IncrementalParser
  input,     \* the text fed so far
  pending,   \* the fragment the source is composing
  thrown,    \* the message of the error a call threw, "" if none
  ended,     \* end() was called
  drained    \* the snapshots collectUpdates has returned, in order

\* The state of one StreamingJsonParser, its reader and the calls made on it.
VARIABLES
  reader,           \* the source: its text and how much of it was read
  fullResponse,     \* StreamingJsonParser.fullResponse (Null for null)
  currentSnapshot,  \* StreamingJsonParser.currentSnapshot (Null for null)
  completed,        \* StreamingJsonParser.completed
  error,            \* the message of StreamingJsonParser.error, "" for null
  consumePromise,   \* "null", or the state of the promise: pending/fulfilled/rejected
  activeWatch,      \* StreamingJsonParser.activeWatch
  background,       \* the run of consumeInBackground
  calls             \* the public operations invoked, each with its position

\* A JSONPointerParser used on its own: the object, the data each
\* getNewCompletedValues was called with and the list it returned.
VARIABLES
  matcher

tokenizerVars == <<parser, input, pending, thrown, ended, drained>>

sessionVars == <<reader, fullResponse, currentSnapshot, completed, error,
                 consumePromise, activeWatch, background, calls>>

matcherVars == <<matcher>>

vars == <<parser, input, pending, thrown, ended, drained,
          reader, fullResponse, currentSnapshot, completed, error,
          consumePromise, activeWatch, background, calls, matcher>>

\* No JSONPointerParser is used on its own.
NoMatcher == [pp |-> NewJSONPointerParser(<<>>, FALSE), queries |-> <<>>, thrown |-> ""]

CallIds == {1}

NoCall ==
  [op |-> "none", pointer |-> <<>>, gated |-> FALSE, pc |-> "none",
   parser |-> NewIncrementalParser, pointerParser |-> NewJSONPointerParser(<<>>, FALSE),
   sourceDone |-> FALSE, updates |-> <<>>, newValues |-> <<>>, newAt |-> <<>>,
   yielded |-> <<>>, yieldedAt |-> <<>>, result |-> Undefined, message |-> ""]

\* new StreamingJsonParser(reader), for a reader over text.
NewStreamingJsonParser(text) ==
  /\ reader = [text |-> text, pos |-> 0]
  /\ fullResponse = Null
  /\ currentSnapshot = Null
  /\ completed = FALSE
  /\ error = ""
  /\ consumePromise = "null"
  /\ activeWatch = FALSE
  /\ background = [pc |-> "idle", parser |-> NewIncrementalParser, message |-> ""]
  /\ calls = [c \in CallIds |-> NoCall]

Init ==
  /\ matcher = NoMatcher
  /\ parser = NewIncrementalParser
  /\ input = <<>>
  /\ pending = <<>>
  /\ thrown = ""
  /\ ended = FALSE
  /\ drained = <<>>
  /\ NewStreamingJsonParser(<<>>)

\* The characters fed after the opening.
Fed == IF \E o \in Openings : startsWith(input, o)
       THEN Len(input) - Len(CHOOSE o \in Openings : startsWith(input, o))
       ELSE Len(input)

Produce(ch) ==
  /\ thrown = "" /\ ~ended
  /\ Fed + Len(pending) < MaxLen
  /\ Len(pending) < MaxChunk
  /\ pending' = Append(pending, ch)
  /\ UNCHANGED <<parser, input, thrown, ended, drained>>
  /\ UNCHANGED sessionVars
  /\ UNCHANGED matcherVars

FeedOpening(text) ==
  /\ thrown = "" /\ ~ended
  /\ input = <<>> /\ pending = <<>>
  /\ LET r == feed(parser, text)
     IN /\ parser' = r.p
        /\ thrown' = r.thrown
  /\ input' = text
  /\ UNCHANGED <<pending, ended, drained>>
  /\ UNCHANGED sessionVars
  /\ UNCHANGED matcherVars

Feed ==
  /\ thrown = "" /\ ~ended
  /\ pending # <<>>
  /\ LET r == feed(parser, pending)
     IN /\ parser' = r.p
        /\ thrown' = r.thrown
  /\ input' = input \o pending
  /\ pending' = <<>>
  /\ UNCHANGED <<ended, drained>>
  /\ UNCHANGED sessionVars
  /\ UNCHANGED matcherVars

End ==
  /\ thrown = "" /\ ~ended
  /\ pending = <<>>
  /\ LET r == end(parser)
     IN /\ parser' = r.p
        /\ thrown' = r.thrown
  /\ ended' = TRUE
  /\ UNCHANGED <<input, pending, drained>>
  /\ UNCHANGED sessionVars
  /\ UNCHANGED matcherVars

CollectUpdates ==
  /\ thrown = ""
  /\ parser.updates # <<>>
  /\ LET r == collectUpdates(parser)
     IN /\ parser' = r.p
        /\ drained' = drained \o r.list
  /\ UNCHANGED <<input, pending, thrown, ended>>
  /\ UNCHANGED sessionVars
  /\ UNCHANGED matcherVars

Next ==
  \/ \E ch \in Alphabet : Produce(ch)
  \/ \E text \in Openings : FeedOpening(text)
  \/ Feed
  \/ End
  \/ CollectUpdates

Spec == Init /\ [][Next]_vars

\* Every snapshot produced so far, in production order.
Snapshots == drained \o parser.updates

(***************************************************************************)
(* Claims about the tokenizer (specification Spec)                         *)
(***************************************************************************)
Finished == ended /\ thrown = ""

LastSnapshot == Snapshots[Len(Snapshots)]

\* C1: whenever the fragments fed so far make up a well-formed JSON text and
\* the run is over (end() was called, or a call threw), no call threw and the
\* last snapshot produced equals JSON.parse of the whole text.
C1_SplitParseEqualsReference ==
  ((ended \/ thrown # "") /\ JSONParse(input).ok)
    => /\ thrown = ""
       /\ Snapshots # <<>>
       /\ LastSnapshot = JSONParse(input).val

\* What the holder of value v sees when the live tree is `heap`.
RECURSIVE Observe(_, _)
Observe(heap, v) ==
  IF v.t = "ref" THEN Observe(heap, heap[v.n])
  ELSE IF IsContainer(v)
       THEN [v EXCEPT !.c = [i \in 1..Len(v.c) |-> Observe(heap, v.c[i])]]
       ELSE v

\* v holds a reference to a container of the live tree.
RECURSIVE SharesLiveContainer(_)
SharesLiveContainer(v) ==
  \/ v.t = "ref"
  \/ \E i \in 1..Len(v.c) : SharesLiveContainer(v.c[i])

\* C2: no snapshot shares a container with the live tree, and no step changes
\* what a snapshot that was already enqueued shows (or its place in the order).
C2_SnapshotsImmutable ==
  /\ [](\A i \in 1..Len(Snapshots) : ~SharesLiveContainer(Snapshots[i]))
  /\ [][\A i \in 1..Len(Snapshots) :
          /\ Snapshots'[i] = Snapshots[i]
          /\ Observe(parser'.heap, Snapshots[i]) = Observe(parser.heap, Snapshots[i])]_vars

\* A container snapshot was handed out and the live tree has changed since.
C2_Witness ==
  \E i \in 1..Len(drained) :
    /\ IsContainer(drained[i])
    /\ \E j \in 1..Len(drained[i].c) : IsContainer(drained[i].c[j])
    /\ drained[i] # cloneRoot(parser)

\* C3: a run that finalized normally and built a value was fed one well-formed
\* JSON text.
C3_MalformedTextRaises ==
  (Finished /\ parser.root # Undefined) => JSONParse(input).ok

(***************************************************************************)
(* StreamingJsonParser: one session.  The source delivers the text of a    *)
(* document in fragments of at most MaxChunk characters, or all that is    *)
(* left at once.  Each action is one stretch of an operation between two   *)
(* suspension points: from its invocation or resumption up to the next     *)
(* await or yield, or to its end.  A value counts as yielded when the      *)
(* generator suspends at the yield.                                        *)
(***************************************************************************)
Documents == {
  <<"{", "\"", "a", "\"", ":", "[", "{", "\"", "b", "\"", ":", "1", ",", "\"", "c", "\"", ":", "2", "}", "]", "}">>,
  <<"{", "\"", "a", "\"", ":", "[", "1", ",", "n", "u", "l", "l", "]", "}">>,
  <<"{", "\"", "a", "\"", ":", "[", "0", ",", "1", "]", "}">>,
  <<"{", "\"", "a", "\"", ":", "[", "]", "}">>,
  <<"[", "{", "\"", "b", "\"", ":", "n", "u", "l", "l", "}", ",", "{", "\"", "c", "\"", ":", "1", "}", "]">>,
  <<"n", "u", "l", "l">>,
  <<"7", " ">>,
  <<>>,
  <<"{", "\"", "a", "\"", ":", "[", "1", ",">>,
  <<"{", "\"", "a", "\"", ":", "\"", "x">>,
  <<"[", "t", "r">>,
  <<"1", "2">>,
  <<"{", "\"", "a", "\"", ":", "x", "}">>,
  <<"{", "\"", "a", "\"", ":", "1", "}">>,
  <<"[", "1", ",", "]">>,
  <<"{", "\"", "a", "/", "b", "\"", ":", "1", "}">> }

Pointers == {
  <<>>,
  <<"/", "a">>,
  <<"/", "a", "/", "*">>,
  <<"/", "a", "/", "0">>,
  <<"/", "a", "/", "5">>,
  <<"/", "b">>,
  <<"/", "*">>,
  <<"/", "a", "/", "*", "/", "b">>,
  <<"a">>,
  <<"/", "a", "/", "l", "e", "n", "g", "t", "h">>,
  <<"/", "t", "o", "S", "t", "r", "i", "n", "g">> }

PathErrorMessage == "Invalid JSON Pointer"
NoResponseMessage == "Failed to get full response"

Last(seq) == seq[Len(seq)]

\* The sizes the next fragment can have.
ChunkSizes ==
  {k \in 1..(Len(reader.text) - reader.pos) :
     k <= MaxChunk \/ k = Len(reader.text) - reader.pos}

\* reader.read(): done once the whole text was delivered.
SourceDone == reader.pos = Len(reader.text)
Chunk(k) == SubSeq(reader.text, reader.pos + 1, reader.pos + k)

Raise(call, message) == [call EXCEPT !.pc = "raised", !.message = message]

\* yield newValues[0], or the end of the generator when none is left.
emitNext(call) ==
  IF call.newValues = <<>> THEN [call EXCEPT !.pc = "returned"]
  ELSE [call EXCEPT !.pc = "yield",
                    !.yielded = Append(@, Head(call.newValues)),
                    !.newValues = Tail(@)]

\* getFullResponse up to its await: [kind, value, message, start], where kind
\* is "value", "throw" or "await" and start tells that ensureConsuming
\* started consumeInBackground.
getFullResponseExit ==
  IF error # "" THEN [kind |-> "throw", value |-> Undefined, message |-> error, start |-> FALSE]
  ELSE IF fullResponse = Null
       THEN [kind |-> "throw", value |-> Undefined, message |-> NoResponseMessage, start |-> FALSE]
       ELSE [kind |-> "value", value |-> fullResponse, message |-> "", start |-> FALSE]

ensureConsuming == consumePromise = "null" /\ ~completed /\ ~activeWatch

getFullResponseEnter ==
  IF completed /\ fullResponse # Null
  THEN [kind |-> "value", value |-> fullResponse, message |-> "", start |-> FALSE]
  ELSE IF error # ""
       THEN [kind |-> "throw", value |-> Undefined, message |-> error, start |-> FALSE]
       ELSE IF ensureConsuming \/ consumePromise # "null"
            THEN [kind |-> "await", value |-> Undefined, message |-> "", start |-> ensureConsuming]
            ELSE getFullResponseExit

\* The nodes select yields for the finished document.
selectNodes(data, pointer) ==
  IF pointer = <<>> THEN << Node(<<>>, determineNodeType(data, <<>>)) >>
  ELSE LET paths == extractMatchingPaths(data, pointer)
       IN [i \in 1..Len(paths) |-> Node(paths[i], determineNodeType(data, paths[i]))]

\* values.length > 0 ? values[0] : undefined
firstValue(values) == IF values = <<>> THEN Undefined ELSE values[1]

\* What the operation does once getFullResponse has settled with outcome r.
afterFullResponse(call, r) ==
  IF r.kind = "throw" THEN Raise(call, r.message)
  ELSE CASE call.op = "getFullResponse" ->
              [call EXCEPT !.pc = "returned", !.result = r.value]
         [] call.op = "watchComplete" ->
              LET path == parseJsonPointer(call.pointer)
              IN IF ~path.ok THEN Raise(call, PathErrorMessage)
                 ELSE emitNext([call EXCEPT !.newValues = extractValues(path.path, r.value)])
         [] call.op = "select" ->
              emitNext([call EXCEPT !.newValues = selectNodes(r.value, call.pointer)])
         [] call.op = "querySelector" ->
              LET nodes == selectNodes(r.value, call.pointer)
              IN [call EXCEPT !.pc = "returned",
                              !.result = IF nodes = <<>> THEN Null ELSE nodes[1]]
         [] call.op = "getValue" ->
              IF call.pointer = <<>>
              THEN [call EXCEPT !.pc = "returned", !.result = r.value]
              ELSE LET path == parseJsonPointer(call.pointer)
                   IN IF ~path.ok THEN Raise(call, PathErrorMessage)
                      ELSE [call EXCEPT !.pc = "returned",
                                        !.result = firstValue(extractValues(path.path, r.value))]

\* An operation built on getFullResponse has run up to the await of
\* getFullResponse, or past it when there was nothing to await: r is the
\* outcome of getFullResponse so far.
Entered(c, call, r) ==
  /\ calls' = [calls EXCEPT ![c] =
                 IF r.kind = "await" THEN [call EXCEPT !.pc = "awaitConsume"]
                 ELSE afterFullResponse(call, r)]
  /\ consumePromise' = IF r.start THEN "pending" ELSE consumePromise
  /\ background' = IF r.start THEN [background EXCEPT !.pc = "read"] ELSE background

\* An operation built on getFullResponse is invoked.
Enter(c, op, pointer) ==
  /\ calls[c].pc = "none"
  /\ Entered(c, [calls[c] EXCEPT !.op = op, !.pointer = pointer], getFullResponseEnter)
  /\ UNCHANGED <<reader, fullResponse, currentSnapshot, completed, error, activeWatch>>
  /\ UNCHANGED tokenizerVars
  /\ UNCHANGED matcherVars

GetFullResponse(c) == Enter(c, "getFullResponse", <<>>)
WatchComplete(c, pointer) == Enter(c, "watchComplete", pointer)
Select(c, pointer) == Enter(c, "select", pointer)
QuerySelector(c, pointer) == Enter(c, "querySelector", pointer)

\* await this.consumePromise is resumed.
AwaitConsume(c) ==
  /\ calls[c].pc = "awaitConsume"
  /\ consumePromise \in {"fulfilled", "rejected"}
  /\ calls' = [calls EXCEPT ![c] =
       afterFullResponse(calls[c],
         IF consumePromise = "rejected"
         THEN [kind |-> "throw", value |-> Undefined,
               message |-> background.message, start |-> FALSE]
         ELSE getFullResponseExit)]
  /\ UNCHANGED <<reader, fullResponse, currentSnapshot, completed, error,
                 consumePromise, activeWatch, background>>
  /\ UNCHANGED tokenizerVars
  /\ UNCHANGED matcherVars

\* The sizes the fragment a read delivers can have; 0 stands for done.
ReadSizes == IF SourceDone THEN {0} ELSE ChunkSizes

\* What a drain does with the outcome of a read on its parser p: end() when
\* the source is done, feed(chunk) otherwise.
Pulled(p, k) == IF k = 0 THEN end(p) ELSE feed(p, Chunk(k))

\* consumeInBackground after parser.end() or parser.feed(chunk), whose
\* outcome is r, and collectUpdates, whose outcome is u.
Consumed(k, r, u) ==
  /\ reader' = [reader EXCEPT !.pos = @ + k]
  /\ IF r.thrown # ""
     THEN /\ background' = [background EXCEPT !.pc = "failed", !.parser = r.p,
                                              !.message = r.thrown]
          /\ error' = r.thrown
          /\ consumePromise' = "rejected"
          /\ UNCHANGED <<fullResponse, currentSnapshot, completed>>
     ELSE /\ currentSnapshot' = IF u.list # <<>> THEN Last(u.list) ELSE currentSnapshot
          /\ UNCHANGED error
          /\ IF k = 0
             THEN /\ background' = [background EXCEPT !.pc = "done", !.parser = u.p]
                  /\ fullResponse' = IF currentSnapshot' # Null THEN currentSnapshot'
                                     ELSE fullResponse
                  /\ completed' = TRUE
                  /\ consumePromise' = "fulfilled"
             ELSE /\ background' = [background EXCEPT !.parser = u.p]
                  /\ UNCHANGED <<fullResponse, completed, consumePromise>>

ConsumePulled(k, r) == Consumed(k, r, collectUpdates(r.p))

\* consumeInBackground: its read is resumed.
ConsumeInBackground ==
  /\ background.pc = "read"
  /\ \E k \in ReadSizes : ConsumePulled(k, Pulled(background.parser, k))
  /\ UNCHANGED <<activeWatch, calls>>
  /\ UNCHANGED tokenizerVars
  /\ UNCHANGED matcherVars

\* watch, from the end of one yield to the next yield (its value taken from
\* newValues, then from the updates still to process), to a throw of
\* getNewCompletedValues, or back to the read: [call, currentSnapshot, thrown].
RECURSIVE watchLoop(_, _)
watchLoop(call, snapshot) ==
  IF call.newValues # <<>>
  THEN [call |-> [call EXCEPT !.pc = "yield",
                              !.yielded = Append(@, Head(call.newValues)),
                              !.yieldedAt = Append(@, Head(call.newAt)),
                              !.newValues = Tail(@), !.newAt = Tail(@)],
        currentSnapshot |-> snapshot, thrown |-> ""]
  ELSE IF call.updates # <<>>
       THEN LET update == Head(call.updates)
                r == getNewCompletedValues(call.pointerParser, update)
            IN IF r.thrown # ""
               THEN [call |-> Raise(call, r.thrown),
                     currentSnapshot |-> update, thrown |-> r.thrown]
               ELSE watchLoop([call EXCEPT !.updates = Tail(@), !.pointerParser = r.pp,
                                           !.newValues = r.list, !.newAt = r.at],
                              update)
       ELSE [call |-> [call EXCEPT !.pc = "read"], currentSnapshot |-> snapshot, thrown |-> ""]

\* The catch and finally blocks of watch and readPartial.
Caught(c, call, message) ==
  /\ calls' = [calls EXCEPT ![c] = Raise(call, message)]
  /\ error' = message
  /\ activeWatch' = FALSE

RECURSIVE markAll(_, _)
markAll(pp, closedStructures) ==
  IF closedStructures = <<>> THEN pp
  ELSE markAll(markStructureClosed(pp, Head(closedStructures)), Tail(closedStructures))

\* What watch does with the outcome o of watchLoop.
Watched(c, o) ==
  /\ currentSnapshot' = o.currentSnapshot
  /\ IF o.thrown # "" THEN Caught(c, o.call, o.thrown)
     ELSE /\ calls' = [calls EXCEPT ![c] = o.call]
          /\ UNCHANGED <<error, activeWatch>>

\* watch is invoked: the pointer is parsed, then the first read is issued.
Watch(c, pointer, gated) ==
  /\ calls[c].pc = "none"
  /\ LET path == parseJsonPointer(pointer)
         call == [calls[c] EXCEPT !.op = "watch", !.pointer = pointer, !.gated = gated]
     IN IF ~path.ok
        THEN /\ calls' = [calls EXCEPT ![c] = Raise(call, PathErrorMessage)]
             /\ UNCHANGED activeWatch
        ELSE /\ calls' = [calls EXCEPT ![c] =
                            [call EXCEPT !.pc = "read",
                                         !.pointerParser = NewJSONPointerParser(path.path, gated)]]
             /\ activeWatch' = TRUE
  /\ UNCHANGED <<reader, fullResponse, currentSnapshot, completed, error,
                 consumePromise, background>>
  /\ UNCHANGED tokenizerVars
  /\ UNCHANGED matcherVars

\* watch after collectUpdates (outcome u) and collectClosedStructures
\* (outcome closed) that follow parser.feed(chunk).
WatchCollected(c, u, closed) ==
  Watched(c, watchLoop([calls[c] EXCEPT !.parser = closed.p,
                                        !.pointerParser = markAll(@, closed.list),
                                        !.updates = u.list],
                       currentSnapshot))

\* watch after parser.end() or parser.feed(chunk), whose outcome is r, and
\* collectUpdates, whose outcome is u.
WatchFed(c, k, r, u) ==
  /\ reader' = [reader EXCEPT !.pos = @ + k]
  /\ IF r.thrown # ""
     THEN /\ Caught(c, [calls[c] EXCEPT !.parser = r.p], r.thrown)
          /\ UNCHANGED <<fullResponse, currentSnapshot, completed>>
     ELSE IF k = 0
          THEN /\ calls' = [calls EXCEPT ![c] = [@ EXCEPT !.pc = "returned", !.parser = u.p]]
               /\ currentSnapshot' = IF u.list # <<>> THEN Last(u.list) ELSE currentSnapshot
               /\ fullResponse' = IF currentSnapshot' # Null THEN currentSnapshot'
                                  ELSE fullResponse
               /\ completed' = TRUE
               /\ activeWatch' = FALSE
               /\ UNCHANGED error
          ELSE /\ WatchCollected(c, u, collectClosedStructures(u.p))
               /\ UNCHANGED <<fullResponse, completed>>

WatchPulled(c, k, r) == WatchFed(c, k, r, collectUpdates(r.p))

\* watch: its read is resumed.
WatchRead(c) ==
  /\ calls[c].op = "watch" /\ calls[c].pc = "read"
  /\ \E k \in ReadSizes : WatchPulled(c, k, Pulled(calls[c].parser, k))
  /\ UNCHANGED <<consumePromise, background>>
  /\ UNCHANGED tokenizerVars
  /\ UNCHANGED matcherVars

\* readPartial with incrementalJsonParser inside it, from the end of one
\* yield to the next, to the read, or to the end: [call, snapshot, ended],
\* where snapshot is the update assigned to currentSnapshot and fullResponse
\* (Undefined when none was).
readPartialLoop(call) ==
  IF call.updates # <<>>
  THEN [call |-> [call EXCEPT !.pc = "yield",
                              !.yielded = Append(@, Head(call.updates)),
                              !.updates = Tail(@)],
        snapshot |-> Head(call.updates), ended |-> FALSE]
  ELSE IF call.sourceDone
       THEN [call |-> [call EXCEPT !.pc = "returned"], snapshot |-> Undefined, ended |-> TRUE]
       ELSE [call |-> [call EXCEPT !.pc = "read"], snapshot |-> Undefined, ended |-> FALSE]

PartialRead(c, o) ==
  /\ calls' = [calls EXCEPT ![c] = o.call]
  /\ currentSnapshot' = IF o.snapshot # Undefined THEN o.snapshot ELSE currentSnapshot
  /\ fullResponse' = IF o.snapshot # Undefined THEN o.snapshot ELSE fullResponse
  /\ completed' = (completed \/ o.ended)
  /\ activeWatch' = IF o.ended THEN FALSE ELSE activeWatch
  /\ UNCHANGED error

\* for (const u of updates) if (u !== undefined) yield u
definedUpdates(list) == SelectSeq(list, LAMBDA u : u # Undefined)

\* readPartial is invoked: the first read is issued.
ReadPartial(c) ==
  /\ calls[c].pc = "none"
  /\ calls' = [calls EXCEPT ![c] = [@ EXCEPT !.op = "readPartial", !.pc = "read"]]
  /\ activeWatch' = TRUE
  /\ UNCHANGED <<reader, fullResponse, currentSnapshot, completed, error,
                 consumePromise, background>>
  /\ UNCHANGED tokenizerVars
  /\ UNCHANGED matcherVars

\* incrementalJsonParser after parser.end() or parser.feed(chunk), whose
\* outcome is r, and collectUpdates, whose outcome is u.
ReadPartialFed(c, k, r, u) ==
  /\ reader' = [reader EXCEPT !.pos = @ + k]
  /\ IF r.thrown # ""
     THEN /\ Caught(c, [calls[c] EXCEPT !.parser = r.p], r.thrown)
          /\ UNCHANGED <<fullResponse, currentSnapshot, completed>>
     ELSE PartialRead(c, readPartialLoop(
            [calls[c] EXCEPT !.parser = u.p, !.sourceDone = (k = 0),
                             !.updates = definedUpdates(u.list)]))

ReadPartialPulled(c, k, r) == ReadPartialFed(c, k, r, collectUpdates(r.p))

\* readPartial: the read of incrementalJsonParser is resumed.
ReadPartialRead(c) ==
  /\ calls[c].op = "readPartial" /\ calls[c].pc = "read"
  /\ \E k \in ReadSizes : ReadPartialPulled(c, k, Pulled(calls[c].parser, k))
  /\ UNCHANGED <<consumePromise, background>>
  /\ UNCHANGED tokenizerVars
  /\ UNCHANGED matcherVars

\* The consumer asks a generator suspended at a yield for its next value.
Resume(c) ==
  /\ calls[c].pc = "yield"
  /\ CASE calls[c].op = "watch" ->
            /\ Watched(c, watchLoop(calls[c], currentSnapshot))
            /\ UNCHANGED <<fullResponse, completed>>
       [] calls[c].op = "readPartial" -> PartialRead(c, readPartialLoop(calls[c]))
       [] OTHER ->
            /\ calls' = [calls EXCEPT ![c] = emitNext(@)]
            /\ UNCHANGED <<fullResponse, currentSnapshot, completed, error, activeWatch>>
  /\ UNCHANGED <<reader, consumePromise, background>>
  /\ UNCHANGED tokenizerVars
  /\ UNCHANGED matcherVars

\* The consumer leaves the loop over a generator suspended at a yield: the
\* generator returns at that yield and its finally block runs.
Return(c) ==
  /\ calls[c].pc = "yield"
  /\ calls' = [calls EXCEPT ![c] = [@ EXCEPT !.pc = "abandoned"]]
  /\ activeWatch' = IF calls[c].op \in {"watch", "readPartial"} THEN FALSE ELSE activeWatch
  /\ UNCHANGED <<reader, fullResponse, currentSnapshot, completed, error,
                 consumePromise, background>>
  /\ UNCHANGED tokenizerVars
  /\ UNCHANGED matcherVars

InitCall ==
  /\ matcher = NoMatcher
  /\ parser = NewIncrementalParser
  /\ input = <<>>
  /\ pending = <<>>
  /\ thrown = ""
  /\ ended = FALSE
  /\ drained = <<>>
  /\ \E text \in Documents : NewStreamingJsonParser(text)

NextCall ==
  \/ \E c \in CallIds, pointer \in Pointers, gated \in BOOLEAN : Watch(c, pointer, gated)
  \/ \E c \in CallIds, pointer \in Pointers : WatchComplete(c, pointer)
  \/ \E c \in CallIds, pointer \in Pointers : Select(c, pointer)
  \/ \E c \in CallIds, pointer \in Pointers : QuerySelector(c, pointer)
  \/ \E c \in CallIds : ReadPartial(c)
  \/ \E c \in CallIds : GetFullResponse(c)
  \/ \E c \in CallIds : WatchRead(c)
  \/ \E c \in CallIds : ReadPartialRead(c)
  \/ \E c \in CallIds : AwaitConsume(c)
  \/ \E c \in CallIds : Resume(c)
  \/ \E c \in CallIds : Return(c)
  \/ ConsumeInBackground

SpecCall == InitCall /\ [][NextCall]_vars

(***************************************************************************)
(* Claims about one operation on a session (specification SpecCall)        *)
(***************************************************************************)
TruncationMessage == "Unexpected end of JSON input"

\* The tokenizer after the whole text, fed in one piece.
Tokenized(text) == feed(NewIncrementalParser, text)

\* r is the outcome of feeding a text that was accepted so far and leaves a
\* string, number or literal token, or a container, open.
OpenAtEnd(r) ==
  /\ r.thrown = ""
  /\ (r.p.state \in {"string", "number", "literal"} \/ Len(r.p.stack) # 0)

Truncated(text) == OpenAtEnd(Tokenized(text))

\* No snapshot of the text fed with outcome r has a value at path.
NotArrived(r, path) ==
  \A i \in 1..Len(r.p.updates) : extractValues(path, r.p.updates[i]) = <<>>

\* The call is not left waiting for a promise that nothing will settle.
CanProceed(call) ==
  call.pc = "awaitConsume" =>
    \/ consumePromise \in {"fulfilled", "rejected"}
    \/ (consumePromise = "pending" /\ background.pc = "read")

C4_Raises(call, r) ==
  /\ call.pc # "returned"
  /\ CanProceed(call)
  /\ call.pc = "raised" =>
       \/ call.message = TruncationMessage
       \/ (call.op = "watch" /\ call.message \in {PathErrorMessage, SyntaxErrorMessage})
  /\ call.op \in {"watchComplete", "select", "querySelector", "getFullResponse"} =>
       (call.yielded = <<>> /\ call.result = Undefined)
  /\ (call.op = "watch" /\ call.pc # "raised" /\ parseJsonPointer(call.pointer).ok
        /\ NotArrived(r, parseJsonPointer(call.pointer).path)) =>
       call.yielded = <<>>
  /\ (call.op = "watch" /\ call.pc = "raised" /\ call.message # PathErrorMessage
        /\ NotArrived(r, call.pointerParser.parsedPath)) =>
       call.yielded = <<>>

OpenContainers(p) == {p.stack[d].value : d \in 1..Len(p.stack)}

\* The containers of the live tree at and below value v.
RECURSIVE ContainersOf(_, _)
ContainersOf(heap, v) ==
  IF v.t = "ref"
  THEN {v.n} \cup UNION {ContainersOf(heap, heap[v.n].c[i]) : i \in 1..Len(heap[v.n].c)}
  ELSE {}

\* value is a copy of a container of the tree of p that is closed, with
\* every container in it.
CopyOfClosed(p, value) ==
  \E id \in 1..Len(p.heap) :
    /\ deepClone(p.heap, Ref(id)) = value
    /\ ContainersOf(p.heap, Ref(id)) \cap OpenContainers(p) = {}

WellFormed(text) == JSONParse(text).ok

\* The finished document: the last snapshot of the text fed with outcome r.
FinalSnapshot(r) == Last(r.p.updates)

\* The values yielded at match position i, in order of emission.
RECURSIVE YieldedAt(_, _, _)
YieldedAt(values, at, i) ==
  IF values = <<>> THEN <<>>
  ELSE (IF Head(at) = i THEN <<Head(values)>> ELSE <<>>) \o YieldedAt(Tail(values), Tail(at), i)

MatchPositions(at) == {at[j] : j \in 1..Len(at)}

\* For each match position, the last value emitted at it; the empty sequence
\* stands for a sequence of positions with a gap.
LastPerPosition(values, at) ==
  IF MatchPositions(at) # 1..Cardinality(MatchPositions(at)) THEN <<>>
  ELSE [i \in 1..Cardinality(MatchPositions(at)) |-> Last(YieldedAt(values, at, i))]

C6_Agree(call, r) ==
  /\ call.op = "watchComplete" =>
       call.yielded = extractValues(parseJsonPointer(call.pointer).path, FinalSnapshot(r))
  /\ (call.op = "watch" /\ ~call.gated) =>
       /\ MatchPositions(call.yieldedAt) = 1..Cardinality(MatchPositions(call.yieldedAt))
       /\ LastPerPosition(call.yielded, call.yieldedAt)
            = extractValues(call.pointerParser.parsedPath, FinalSnapshot(r))

\* C6: for a well-formed document, watchComplete(path) run to its end has
\* yielded the values at path in the finished document, and watch(path) run
\* to its end has emitted, as the last value of each match position, exactly
\* that sequence.
C6_EagerAgreesWithGated ==
  \A c \in CallIds :
    (WellFormed(reader.text) /\ calls[c].pc = "returned")
      => C6_Agree(calls[c], Tokenized(reader.text))

\* The values at the locations of value that match path from segment i on,
\* in document order: a segment indexes an object by own key and an array by
\* a non-negative integer, and * stands for every index of an array.
RECURSIVE Located(_, _, _)
RECURSIVE LocatedEach(_, _, _, _)
LocatedEach(items, j, path, i) ==
  IF j > Len(items) THEN <<>>
  ELSE Located(items[j], path, i + 1) \o LocatedEach(items, j + 1, path, i)

Located(value, path, i) ==
  IF i > Len(path) THEN <<value>>
  ELSE IF value.t = "array"
       THEN IF path[i] = Star THEN LocatedEach(value.c, 1, path, i)
            ELSE IF IsIndexKey(path[i]) /\ DigitsValue(path[i]) < Len(value.c)
                 THEN Located(value.c[DigitsValue(path[i]) + 1], path, i + 1)
                 ELSE <<>>
       ELSE IF value.t = "object" /\ IndexOf(value.k, path[i]) > 0
            THEN Located(value.c[IndexOf(value.k, path[i])], path, i + 1)
            ELSE <<>>

\* C7: for a well-formed document and a valid path, watchComplete(path) does
\* not raise, and run to its end it has yielded exactly the values located at
\* path in the document, each once, in document order, null included.
C7_GatedYieldsTheMatches ==
  \A c \in CallIds :
    (calls[c].op = "watchComplete" /\ WellFormed(reader.text)
       /\ parseJsonPointer(calls[c].pointer).ok)
      => /\ calls[c].pc # "raised"
         /\ calls[c].pc = "returned" =>
              calls[c].yielded = Located(JSONParse(reader.text).val,
                                         parseJsonPointer(calls[c].pointer).path, 1)

\* seq without the elements equal to their predecessor.
RECURSIVE Distinct(_)
Distinct(seq) ==
  IF Len(seq) <= 1 THEN seq
  ELSE IF seq[1] = seq[2] THEN Distinct(Tail(seq))
       ELSE <<seq[1]>> \o Distinct(Tail(seq))

\* The successive states of the value at match position i of path in the
\* snapshots.
RECURSIVE StatesAt(_, _, _)
StatesAt(snapshots, path, i) ==
  IF snapshots = <<>> THEN <<>>
  ELSE (IF i <= Len(extractValues(path, Head(snapshots)))
        THEN <<extractValues(path, Head(snapshots))[i]>> ELSE <<>>)
       \o StatesAt(Tail(snapshots), path, i)

C8_Emits(call, r) ==
  \A i \in 1..Len(extractValues(call.pointerParser.parsedPath, FinalSnapshot(r))) :
    IsContainer(extractValues(call.pointerParser.parsedPath, FinalSnapshot(r))[i])
      => YieldedAt(call.yielded, call.yieldedAt, i)
           = Distinct(StatesAt(r.p.updates, call.pointerParser.parsedPath, i))

\* C8: for a well-formed document, watch(path) run to its end has emitted,
\* for every matched container, each of its distinct successive states in the
\* snapshots, in order, ending with the complete container.
C8_EagerEmitsEachState ==
  \A c \in CallIds :
    (calls[c].op = "watch" /\ ~calls[c].gated /\ calls[c].pc = "returned"
       /\ WellFormed(reader.text))
      => C8_Emits(calls[c], Tokenized(reader.text))

\* Some location of value matches path from segment i on, when * stands for
\* every index of an array and every key of an object.
RECURSIVE Matches(_, _, _)
Matches(value, path, i) ==
  IF i > Len(path) THEN TRUE
  ELSE IF ~IsContainer(value) THEN FALSE
  ELSE IF path[i] = Star THEN \E j \in 1..Len(value.c) : Matches(value.c[j], path, i + 1)
  ELSE Located(value, <<path[i]>>, 1) # <<>>
         /\ Matches(Located(value, <<path[i]>>, 1)[1], path, i + 1)

PathTaking == {"watch", "watchComplete", "select", "querySelector"}

\* C9: for a well-formed document and a valid path that matches no location
\* of it, watch, watchComplete, select and querySelector do not raise, the
\* generators yield nothing and querySelector returns null.
C9_NoMatchIsEmpty ==
  \A c \in CallIds :
    (calls[c].op \in PathTaking /\ WellFormed(reader.text)
       /\ parseJsonPointer(calls[c].pointer).ok
       /\ ~Matches(JSONParse(reader.text).val, parseJsonPointer(calls[c].pointer).path, 1))
      => /\ calls[c].pc # "raised"
         /\ calls[c].yielded = <<>>
         /\ (calls[c].op = "querySelector" /\ calls[c].pc = "returned") => calls[c].result = Null

\* A path string that is not empty and does not start with '/'.
InvalidPath(pointer) == pointer # <<>> /\ pointer[1] # "/"

\* C10: an operation given a path that is not empty and does not start with
\* '/' yields and returns nothing; when it raises, the error is the path
\* error and nothing was read from the source before.
C10_InvalidPathRejected ==
  \A c \in CallIds :
    (calls[c].op \in PathTaking /\ InvalidPath(calls[c].pointer))
      => /\ calls[c].pc \notin {"yield", "returned", "abandoned"}
         /\ calls[c].pc = "raised" =>
              /\ calls[c].message = PathErrorMessage
              /\ reader.pos = 0
              /\ background.pc = "idle"

(***************************************************************************)
(* Several operations on one session (specification SpecSession)           *)
(*                                                                         *)
(* Up to MaxCalls public operations are invoked on one session, one after  *)
(* another or while earlier ones are suspended; calls are numbered in the  *)
(* order of their invocation.  Every drain reads from the one reader of    *)
(* the session: a read that is resumed takes the next fragment, and reads  *)
(* pending at the same time are resumed in any order, the order of their   *)
(* requests included.                                                      *)
(***************************************************************************)
MaxCalls == 2

SessionCallIds == 1..MaxCalls

SessionDocuments == {
  <<"[", "1", "]">>,
  <<"[", "1", ",">>,
  <<"[", "x", "]">>,
  <<"n", "u", "l", "l">> }

SessionPointers == { <<>>, <<"/", "0">> }

\* getCurrentSnapshot() returning the field getFullResponse returns.
getCurrentSnapshotFullResponse == fullResponse

\* getCurrentSnapshot()
getCurrentSnapshot == currentSnapshot

\* The call is the next one to be invoked.
Invocable(c) ==
  /\ calls[c].pc = "none"
  /\ \A d \in DOMAIN calls : d < c => calls[d].pc # "none"

GetCurrentSnapshot(c) ==
  /\ calls[c].pc = "none"
  /\ calls' = [calls EXCEPT ![c] = [@ EXCEPT !.op = "getCurrentSnapshot",
                                             !.pc = "returned",
                                             !.result = getCurrentSnapshot]]
  /\ UNCHANGED <<reader, fullResponse, currentSnapshot, completed, error,
                 consumePromise, activeWatch, background>>
  /\ UNCHANGED tokenizerVars
  /\ UNCHANGED matcherVars

\* The nodes the consumer holds: those select has yielded and the one
\* querySelector has returned.
NodesHeld ==
  {v \in UNION {{calls[d].result} \cup {calls[d].yielded[i] : i \in 1..Len(calls[d].yielded)} :
                  d \in DOMAIN calls} : v.t = "node"}

\* node.getValue() on a node the consumer holds.
GetValue(c, node) == Enter(c, "getValue", node.s)

InitSession ==
  /\ matcher = NoMatcher
  /\ parser = NewIncrementalParser
  /\ input = <<>>
  /\ pending = <<>>
  /\ thrown = ""
  /\ ended = FALSE
  /\ drained = <<>>
  /\ \E text \in SessionDocuments :
       /\ reader = [text |-> text, pos |-> 0]
       /\ fullResponse = Null
       /\ currentSnapshot = Null
       /\ completed = FALSE
       /\ error = ""
       /\ consumePromise = "null"
       /\ activeWatch = FALSE
       /\ background = [pc |-> "idle", parser |-> NewIncrementalParser, message |-> ""]
       /\ calls = [c \in SessionCallIds |-> NoCall]

NextSession ==
  \/ \E c \in SessionCallIds, pointer \in SessionPointers :
       Invocable(c) /\ Watch(c, pointer, FALSE)
  \/ \E c \in SessionCallIds, pointer \in SessionPointers :
       Invocable(c) /\ WatchComplete(c, pointer)
  \/ \E c \in SessionCallIds, pointer \in SessionPointers :
       Invocable(c) /\ Select(c, pointer)
  \/ \E c \in SessionCallIds, pointer \in SessionPointers :
       Invocable(c) /\ QuerySelector(c, pointer)
  \/ \E c \in SessionCallIds : Invocable(c) /\ ReadPartial(c)
  \/ \E c \in SessionCallIds : Invocable(c) /\ GetFullResponse(c)
  \/ \E c \in SessionCallIds : Invocable(c) /\ GetCurrentSnapshot(c)
  \/ \E c \in SessionCallIds : \E node \in NodesHeld : Invocable(c) /\ GetValue(c, node)
  \/ \E c \in SessionCallIds : WatchRead(c)
  \/ \E c \in SessionCallIds : ReadPartialRead(c)
  \/ \E c \in SessionCallIds : AwaitConsume(c)
  \/ \E c \in SessionCallIds : Resume(c)
  \/ \E c \in SessionCallIds : Return(c)
  \/ ConsumeInBackground

SpecSession == InitSession /\ [][NextSession]_vars

(***************************************************************************)
(* Claims about several operations on a session (specification SpecSession)*)
(***************************************************************************)
\* The drain loop of call d (watch or readPartial) has started and has not
\* finished: it waits for a read or is suspended at a yield.
DrainingCall(d) ==
  calls[d].op \in {"watch", "readPartial"} /\ calls[d].pc \in {"read", "yield"}

\* The document a session over the text of the reader finishes with.
FinishedDocument == FinalSnapshot(Tokenized(reader.text))

\* C11: when getFullResponse is invoked while the drain loop of a watch or
\* readPartial call is running, the invocation starts no background drain,
\* does not raise and does not return; and a getFullResponse call that
\* returns after waiting returns the finished document.
C11_WaitsForActiveDrain ==
  [][\A c \in DOMAIN calls :
       /\ (calls[c].pc = "none" /\ calls'[c].op = "getFullResponse"
             /\ \E d \in DOMAIN calls : DrainingCall(d))
            => /\ background' = background
               /\ calls'[c].pc = "awaitConsume"
       /\ (calls[c].op = "getFullResponse" /\ calls[c].pc = "awaitConsume"
             /\ calls'[c].pc = "returned")
            => calls'[c].result = FinishedDocument]_vars

\* The drain loops that wait for a fragment of the source: 0 stands for
\* consumeInBackground.
PullingDrains ==
  {d \in DOMAIN calls : calls[d].op \in {"watch", "readPartial"} /\ calls[d].pc = "read"}
    \cup (IF background.pc = "read" THEN {0} ELSE {})

\* The tokenizers that were given a fragment of the source.
FedTokenizers ==
  {d \in DOMAIN calls : calls[d].parser # NewIncrementalParser}
    \cup (IF background.parser # NewIncrementalParser THEN {0} ELSE {})

\* C12: in every reachable state of a session at most one drain loop waits
\* for a fragment of the source, and at most one tokenizer was given
\* fragments of it.
C12_SingleDrain ==
  /\ Cardinality(PullingDrains) <= 1
  /\ Cardinality(FedTokenizers) <= 1

\* C13: in every step of a session, a session with an error recorded keeps
\* an error recorded and does not become completed, and a completed session
\* stays completed and records no error.
C13_CompletedOrFailed ==
  [][/\ error # "" => (error' # "" /\ ~completed')
     /\ completed => (completed' /\ error' = "")]_vars

\* The operations that obtain the document from getFullResponse.
Accessors == {"getFullResponse", "select", "querySelector", "watchComplete", "getValue"}

\* C14: once the background drain has failed, the error of the session is
\* the error of that drain, and every getFullResponse, select, querySelector,
\* watchComplete or getValue call that was waiting for the drain or is
\* invoked afterwards raises that error.
C14_BackgroundErrorRaised ==
  [][background.pc = "failed" =>
       /\ error = background.message
       /\ \A c \in DOMAIN calls :
            (calls[c].pc \in {"none", "awaitConsume"} /\ calls'[c].op \in Accessors
               /\ calls'[c].pc \notin {"none", "awaitConsume"})
              => (calls'[c].pc = "raised" /\ calls'[c].message = background.message)]_vars

\* Every operation invoked so far obtains the document from getFullResponse.
AccessorsOnly == \A d \in DOMAIN calls : calls[d].op \in Accessors \cup {"none"}

\* C15: in a session on which only getFullResponse, select, querySelector,
\* watchComplete and getValue are invoked, the first invocation starts the
\* background drain and a later one leaves that drain as it is; and on a
\* well-formed document every one of the calls that gets past
\* getFullResponse does not raise and has been given the whole document.
C15_OneDrainForAllAccessors ==
  [][AccessorsOnly' =>
       \A c \in DOMAIN calls :
         /\ (calls[c].pc = "none" /\ calls'[c].pc # "none")
              => IF consumePromise = "null"
                 THEN background'.pc = "read" /\ background.pc = "idle"
                 ELSE background' = background
         /\ (calls[c].pc \in {"none", "awaitConsume"}
               /\ calls'[c].pc \notin {"none", "awaitConsume"}
               /\ WellFormed(reader.text))
              => /\ calls'[c].pc # "raised"
                 /\ fullResponse = JSONParse(reader.text).val
                 /\ calls'[c].op = "getFullResponse" => calls'[c].result = fullResponse]_vars

(***************************************************************************)
(* Claims about the pacing of one operation (specification SpecCall)       *)
(***************************************************************************)
\* The values located at path in the tree the tokenizer p has built whose
\* closing delimiter p has consumed: scalars, and copies of containers that
\* are closed with every container in them.
ClosedMatches(p, path) ==
  IF p.root = Undefined THEN <<>>
  ELSE SelectSeq(Located(deepClone(p.heap, p.root), path, 1),
                 LAMBDA v : IsContainer(v) => CopyOfClosed(p, v))

\* C16: while watchComplete(path) is running and its drain is about to pull
\* a further fragment of the source, every match of path whose closing
\* delimiter arrived in the fragments fed so far has been yielded.
C16_GatedYieldsPerFragment ==
  \A c \in DOMAIN calls :
    (calls[c].op = "watchComplete" /\ parseJsonPointer(calls[c].pointer).ok
       /\ background.pc = "read" /\ ~SourceDone)
      => Len(ClosedMatches(background.parser, parseJsonPointer(calls[c].pointer).path))
           <= Len(calls[c].yielded)

\* C17: on a session on which watchComplete alone is invoked, a value has
\* been yielded only when the source has signalled its end and the drain
\* has finished without an error, so that no read follows the first value;
\* and nothing is yielded when the text is not a well-formed JSON document.
C17_GatedYieldsAfterEnd ==
  \A c \in DOMAIN calls :
    calls[c].op = "watchComplete" =>
      /\ calls[c].yielded # <<>> =>
           (SourceDone /\ background.pc = "done" /\ completed /\ error = "")
      /\ ~WellFormed(reader.text) => calls[c].yielded = <<>>

\* The values the call has derived from the fragments read so far and the
\* consumer has not received.
Undelivered(call) ==
  IF call.op = "watch"
  THEN Len(call.newValues) + Len(call.updates) + Len(call.parser.updates)
  ELSE Len(ClosedMatches(background.parser, parseJsonPointer(call.pointer).path))
         - Len(call.yielded)

\* C18: on a session on which watch or watchComplete alone is invoked with
\* a valid path, a further fragment is pulled from the source only when the
\* consumer has received every value derived from the fragments pulled
\* before.
C18_Backpressure ==
  [][(reader'.pos > reader.pos /\ reader.pos > 0) =>
       \A c \in DOMAIN calls :
         (calls[c].op \in {"watch", "watchComplete"}
            /\ parseJsonPointer(calls[c].pointer).ok)
           => Undelivered(calls[c]) <= 0]_vars

(***************************************************************************)
(* Claims about the accessors of a session (specification SpecSession)     *)
(***************************************************************************)
\* The call has got past getFullResponse or was ended by it.
Settled(call) == call.pc \notin {"none", "awaitConsume"}

\* C19: in a session over a well-formed document on which only accessors
\* are invoked, querySelector('') returns a node with path '' and getValue()
\* of a node with path '' returns the whole document.
C19_RootRoundTrip ==
  (AccessorsOnly /\ WellFormed(reader.text)) =>
    \A c \in DOMAIN calls :
      /\ (calls[c].op = "querySelector" /\ calls[c].pointer = <<>> /\ Settled(calls[c]))
           => (calls[c].pc = "returned" /\ calls[c].result.t = "node"
                 /\ calls[c].result.s = <<>>)
      /\ (calls[c].op = "getValue" /\ calls[c].pointer = <<>> /\ Settled(calls[c]))
           => (calls[c].pc = "returned"
                 /\ calls[c].result = JSONParse(reader.text).val)

\* The session has at most one drain: the background drain, or the loop of
\* one watch or readPartial call.
OneDrain ==
  Cardinality({d \in DOMAIN calls : calls[d].op \in {"watch", "readPartial"}}
                \cup (IF background.pc # "idle" THEN {0} ELSE {})) <= 1

RECURSIVE SumOver(_, _)
SumOver(f, S) ==
  IF S = {} THEN 0
  ELSE LET x == CHOOSE y \in S : TRUE IN f[x] + SumOver(f, S \ {x})

\* The snapshots the tokenizers of the session hold that no drain has
\* observed: those not collected and those the loop has not reached.
Unobserved ==
  Len(background.parser.updates)
    + SumOver([d \in DOMAIN calls |-> Len(calls[d].parser.updates) + Len(calls[d].updates)],
              DOMAIN calls)

\* The most recent snapshot the drain has observed, among the snapshots of
\* the text read so far; Null when it has observed none.
LastObserved(snapshots) ==
  IF Len(snapshots) - Unobserved <= 0 THEN Null
  ELSE snapshots[Len(snapshots) - Unobserved]

\* C20: in a session with at most one drain, an invocation of
\* getCurrentSnapshot leaves the reader, the session fields, the drain and
\* the other calls as they are, and returns the most recent snapshot the
\* drain has observed (null when it has observed none), which is the
\* document of getFullResponse once the drain has completed.
C20_SnapshotAccessor ==
  [][\A c \in DOMAIN calls :
       (calls[c].pc = "none" /\ calls'[c].op = "getCurrentSnapshot" /\ OneDrain)
         => /\ UNCHANGED <<reader, fullResponse, currentSnapshot, completed, error,
                           consumePromise, activeWatch, background>>
            /\ \A d \in DOMAIN calls \ {c} : calls'[d] = calls[d]
            /\ calls'[c].pc = "returned"
            /\ calls'[c].result
                 = LastObserved(Tokenized(SubSeq(reader.text, 1, reader.pos)).p.updates)
            /\ (completed /\ fullResponse # Null) => calls'[c].result = fullResponse]_vars

\* getCurrentSnapshot returned the empty array while the background drain
\* of the document [1] had read its first character only.
C20_Witness ==
  \E c \in DOMAIN calls :
    /\ calls[c].op = "getCurrentSnapshot" /\ calls[c].pc = "returned"
    /\ calls[c].result = Arr(<<>>)
    /\ background.pc = "read" /\ reader.pos = 1
    /\ fullResponse = Null

(***************************************************************************)
(* Claims about the lexer and the context stack (specification Spec)       *)
(***************************************************************************)
\* The text fed after the opening, if the run began with one.
ValueText == SubSeq(input, Len(input) - Fed + 1, Len(input))

\* text is one quoted string literal of JSON, from its opening quote to its
\* closing quote.
IsStringLiteral(text) ==
  /\ Len(text) >= 2
  /\ text[1] = "\""
  /\ ClosingQuote(text, 2) = Len(text)
  /\ JSONParseString(SubSeq(text, 2, Len(text) - 1)).ok

\* C21: once a whole string literal was fed in value position (at the top
\* level or as the value of a member), in whatever fragments, and before end()
\* is called, no feed threw and the value the last snapshot shows there is the
\* JSON decoding of the literal as it appeared in the input.
C21_StringTokenDecoded ==
  (~ended /\ IsStringLiteral(ValueText)) =>
    LET v == Str(JSONParseString(SubSeq(ValueText, 2, Len(ValueText) - 1)).s)
    IN /\ thrown = ""
       /\ Snapshots # <<>>
       /\ \/ LastSnapshot = v
          \/ LastSnapshot.t = "object" /\ LastSnapshot.c = <<v>>

\* C26: while no call has thrown, the pending key of every object context is a
\* string: no number, literal, object or array pushed while a key is expected
\* becomes the key.
C26_OnlyStringKeys ==
  thrown = "" =>
    \A d \in 1..Len(parser.stack) :
      (parser.stack[d].type = "object" /\ parser.stack[d].key # Undefined)
        => parser.stack[d].key.t = "string"

\* The fragment fed by this step is the one character ch, met in the default
\* lexer state.
FeedsOne(ch) ==
  /\ thrown = "" /\ ~ended
  /\ parser.state = "default"
  /\ pending = <<ch>>
  /\ input' = Append(input, ch)

\* The closing delimiter ch is of the kind of the top context.
ClosesTop(ch) ==
  /\ parser.stack # <<>>
  /\ ch = (IF parser.stack[Len(parser.stack)].type = "array" THEN "]" ELSE "}")

\* C27: a closing delimiter fed in the default state pops the top context
\* exactly when the stack is not empty, the delimiter is of the kind of the top
\* context and that context is in state expectKeyOrEnd, expectValueOrEnd or
\* expectCommaOrEnd; otherwise feed throws and the stack is left as it was.
C27_CloseOnlyWhereAllowed ==
  [][\A ch \in {"]", "}"} :
       FeedsOne(ch) =>
         IF /\ ClosesTop(ch)
            /\ parser.stack[Len(parser.stack)].state
                 \in {"expectKeyOrEnd", "expectValueOrEnd", "expectCommaOrEnd"}
         THEN /\ thrown' = ""
              /\ parser'.stack = SubSeq(parser.stack, 1, Len(parser.stack) - 1)
         ELSE /\ thrown' # ""
              /\ parser'.stack = parser.stack]_vars

\* The stack with the state of its top context replaced.
TopMoved(state) == [parser.stack EXCEPT ![Len(parser.stack)].state = state]

\* C28: a ',' fed in the default state is accepted exactly when the top
\* context is in expectCommaOrEnd, and moves it to expectKey (object) or
\* expectValue (array); a ':' is accepted exactly when the top context is an
\* object in expectColon, and moves it to expectValue; otherwise, and on an
\* empty stack, feed throws and no context, value or snapshot is changed.
C28_SeparatorDispatch ==
  [][/\ FeedsOne(",") =>
          IF parser.stack # <<>>
             /\ parser.stack[Len(parser.stack)].state = "expectCommaOrEnd"
          THEN /\ thrown' = ""
               /\ parser'.stack =
                    TopMoved(IF parser.stack[Len(parser.stack)].type = "object"
                             THEN "expectKey" ELSE "expectValue")
               /\ parser'.heap = parser.heap /\ parser'.updates = parser.updates
          ELSE /\ thrown' # ""
               /\ parser'.stack = parser.stack
               /\ parser'.heap = parser.heap /\ parser'.updates = parser.updates
     /\ FeedsOne(":") =>
          IF parser.stack # <<>>
             /\ parser.stack[Len(parser.stack)].type = "object"
             /\ parser.stack[Len(parser.stack)].state = "expectColon"
          THEN /\ thrown' = ""
               /\ parser'.stack = TopMoved("expectValue")
               /\ parser'.heap = parser.heap /\ parser'.updates = parser.updates
          ELSE /\ thrown' # ""
               /\ parser'.stack = parser.stack
               /\ parser'.heap = parser.heap /\ parser'.updates = parser.updates]_vars

\* A comma met in the default state, after the value of a member, was accepted
\* and the object context awaits a key.
C28_Witness ==
  /\ thrown = ""
  /\ Len(input) >= 2
  /\ input[Len(input)] = ","
  /\ input[Len(input) - 1] \in {"\"", "]", "}", " "}
  /\ parser.stack # <<>>
  /\ parser.stack[Len(parser.stack)].type = "object"
  /\ parser.stack[Len(parser.stack)].state = "expectKey"

\* The fragment fed by this step is the one character ch, met while a number
\* token is open.
FeedsOneInNumber(ch) ==
  /\ thrown = "" /\ ~ended
  /\ parser.state = "number"
  /\ pending = <<ch>>
  /\ input' = Append(input, ch)

\* The number characters text ends with.
RECURSIVE NumberRun(_)
NumberRun(text) ==
  IF text = <<>> \/ ~isNumberChar(text[Len(text)]) THEN <<>>
  ELSE Append(NumberRun(SubSeq(text, 1, Len(text) - 1)), text[Len(text)])

\* The tokenizer once the open number token was pushed as one value.
AfterNumber ==
  [pushValue(parser, NumberOf(parser.token)).p EXCEPT !.state = "default", !.token = <<>>]

\* C29: an open number token holds the number characters fed since it began,
\* whatever the fragments; a further number character only extends it (no
\* snapshot is produced); the first other character has the token pushed as
\* one value and is then dispatched once in the default state, in the same
\* feed.
C29_NumberLexing ==
  /\ []((thrown = "" /\ parser.state = "number") => parser.token = NumberRun(input))
  /\ [][\A ch \in Alphabet :
          FeedsOneInNumber(ch) =>
            IF isNumberChar(ch)
            THEN /\ thrown' = ""
                 /\ parser' = [parser EXCEPT !.token = Append(@, ch)]
            ELSE IF pushValue(parser, NumberOf(parser.token)).thrown # ""
                 THEN thrown' = pushValue(parser, NumberOf(parser.token)).thrown
                 ELSE /\ thrown' = feed(AfterNumber, <<ch>>).thrown
                      /\ parser' = feed(AfterNumber, <<ch>>).p]_vars

\* The text [11] was fed: the snapshots show the empty array, the array with
\* 11, and the closed array, and none shows a part of the number.
C29_Witness ==
  /\ thrown = ""
  /\ input = <<"[", "1", "1", "]">>
  /\ Snapshots = <<Arr(<<>>), Arr(<<Num(11)>>), Arr(<<Num(11)>>)>>

(***************************************************************************)
(* The tokenizer fed with letters: the source composes fragments of at     *)
(* most MaxChunk of the letters of true, false and null, up to MaxWord     *)
(* letters in all (specification SpecLiteral).                             *)
(***************************************************************************)
MaxWord == 5

LiteralAlphabet == {"t", "r", "u", "e", "f", "a", "l", "s", "n"}

ProduceLetter(ch) ==
  /\ thrown = "" /\ ~ended
  /\ Len(input) + Len(pending) < MaxWord
  /\ Len(pending) < MaxChunk
  /\ pending' = Append(pending, ch)
  /\ UNCHANGED <<parser, input, thrown, ended, drained>>
  /\ UNCHANGED sessionVars
  /\ UNCHANGED matcherVars

NextLiteral ==
  \/ \E ch \in LiteralAlphabet : ProduceLetter(ch)
  \/ Feed
  \/ End
  \/ CollectUpdates

SpecLiteral == Init /\ [][NextLiteral]_vars

\* The fragment fed by this step is the one character ch, met while a literal
\* token is open.
FeedsOneInLiteral(ch) ==
  /\ thrown = "" /\ ~ended
  /\ parser.state = "literal"
  /\ pending = <<ch>>
  /\ input' = Append(input, ch)

Keywords == {TrueChars, FalseChars, NullChars}

KeywordValue(token) ==
  IF token = TrueChars THEN True ELSE IF token = FalseChars THEN False ELSE Null

\* C30: a character fed while a literal token is open is appended to it; if
\* the token is then true, false or null, that value is pushed and the lexer
\* returns to the default state; if it is a proper prefix of a keyword the
\* lexer stays in the literal state with the token kept for the next fragment;
\* anything else makes feed throw.  A keyword fed in fragments split at any
\* point yields the value that feeding it whole yields.
C30_LiteralLexing ==
  /\ [][\A ch \in LiteralAlphabet :
          FeedsOneInLiteral(ch) =>
            LET token == Append(parser.token, ch)
            IN IF token \in Keywords
               THEN /\ thrown' = ""
                    /\ parser'.state = "default" /\ parser'.token = <<>>
                    /\ Snapshots' = Append(Snapshots, KeywordValue(token))
               ELSE IF \E k \in Keywords : startsWith(k, token)
                    THEN /\ thrown' = ""
                         /\ parser' = [parser EXCEPT !.token = token]
                    ELSE thrown' # ""]_vars
  /\ []((input \in Keywords /\ ~ended) =>
          /\ thrown = ""
          /\ parser.state = "default"
          /\ Snapshots = feed(NewIncrementalParser, input).p.updates
          /\ Snapshots = <<KeywordValue(input)>>)

\* false was fed, in three fragments or more, and the snapshot shows false.
C30_Witness ==
  /\ thrown = ""
  /\ input = FalseChars
  /\ LastSnapshot = False

\* The fragment fed by this step is the one character ch.
FeedsChar(ch) ==
  /\ thrown = "" /\ ~ended
  /\ pending = <<ch>>
  /\ input' = Append(input, ch)

Brackets == {"{", "[", "}", "]"}

\* The placements and structural closes that the character ch asks of the
\* tokenizer p: a container opened or closed, a string, number or literal
\* token completed (a character that ends a number is then dispatched itself).
Placements(p, ch) ==
  CASE p.state = "default" -> IF ch \in Brackets THEN 1 ELSE 0
    [] p.state = "string" -> IF ~p.escape /\ ch = "\"" THEN 1 ELSE 0
    [] p.state = "number" ->
         IF isNumberChar(ch) THEN 0 ELSE 1 + (IF ch \in Brackets THEN 1 ELSE 0)
    [] p.state = "literal" -> IF Append(p.token, ch) \in Keywords THEN 1 ELSE 0

\* C31: a feed that returns has enqueued one snapshot for every placement and
\* every structural close it made, the last being a copy of the root as it
\* now is; no step removes, changes or reorders a snapshot produced before,
\* and collectUpdates hands over the queue as it is, once.
C31_OneSnapshotPerPlacement ==
  [][/\ \A ch \in Alphabet :
          (FeedsChar(ch) /\ thrown' = "") =>
            /\ Len(Snapshots') = Len(Snapshots) + Placements(parser, ch)
            /\ Placements(parser, ch) > 0 => Last(Snapshots') = cloneRoot(parser')
     /\ Len(Snapshots') >= Len(Snapshots)
     /\ SubSeq(Snapshots', 1, Len(Snapshots)) = Snapshots
     /\ drained' # drained => (drained' = Snapshots /\ parser'.updates = <<>>)]_vars

\* The context at depth d fills a child of the container of the context below
\* it: the last element of an array, a member value of an object.
FillsChildOfBelow(p, d) ==
  LET below == p.heap[p.stack[d - 1].value]
      mine == Ref(p.stack[d].value)
  IN IF below.t = "array"
     THEN Len(below.c) > 0 /\ below.c[Len(below.c)] = mine
     ELSE \E i \in 1..Len(below.c) : below.c[i] = mine

\* C32: in every reachable state of the tokenizer the container of the bottom
\* context is the document root, and the container of every other context is
\* a child stored in the container of the context directly below it.
C32_StackMirrorsTree ==
  /\ parser.stack # <<>> => parser.root = Ref(parser.stack[1].value)
  /\ \A d \in 2..Len(parser.stack) : FillsChildOfBelow(parser, d)

\* The snapshots incrementalJsonParser yields for text delivered as a single
\* fragment: the queue collected after the feed, nothing when the feed throws.
Delivered(text) ==
  IF Tokenized(text).thrown = "" THEN Tokenized(text).p.updates ELSE <<>>

\* C36: after every feed, the snapshots collected over the feeds that have
\* returned are the snapshots the same text yields when it is delivered as a
\* single fragment: the sequence does not depend on the split.
C36_FragmentationIndependence ==
  [][(thrown = "" /\ ~ended /\ input' # input)
       => (IF thrown' = "" THEN Snapshots' ELSE Snapshots) = Delivered(input')]_vars

\* b holds every location of a with the same scalars there: scalars are
\* unchanged, containers keep their kind and their children in place and may
\* have gained children after them.
RECURSIVE Extends(_, _)
Extends(a, b) ==
  IF ~IsContainer(a) THEN a = b
  ELSE /\ b.t = a.t
       /\ Len(b.c) >= Len(a.c)
       /\ a.t = "object" => SubSeq(b.k, 1, Len(a.k)) = a.k
       /\ \A i \in 1..Len(a.c) : Extends(a.c[i], b.c[i])

\* The number of values in value, itself included.
RECURSIVE Size(_)
RECURSIVE SizeEach(_, _)
SizeEach(items, i) == IF i > Len(items) THEN 0 ELSE Size(items[i]) + SizeEach(items, i + 1)

Size(value) == IF IsContainer(value) THEN 1 + SizeEach(value.c, 1) ELSE 1

\* The number of containers in value, itself included.
RECURSIVE Containers(_)
RECURSIVE ContainersEach(_, _)
ContainersEach(items, i) ==
  IF i > Len(items) THEN 0 ELSE Containers(items[i]) + ContainersEach(items, i + 1)

Containers(value) == IF IsContainer(value) THEN 1 + ContainersEach(value.c, 1) ELSE 0

\* No object of value has two members with the same key.
RECURSIVE DistinctKeys(_)
DistinctKeys(value) ==
  IsContainer(value) =>
    /\ value.t = "object" =>
         \A i, j \in 1..Len(value.k) : value.k[i] = value.k[j] => i = j
    /\ \A i \in 1..Len(value.c) : DistinctKeys(value.c[i])

\* The snapshots equal to their predecessor.
Repeats == {k \in 2..Len(Snapshots) : Snapshots[k] = Snapshots[k - 1]}

\* C37: when the parse of a well-formed text without duplicate keys is over,
\* the first snapshot holds one value, every later snapshot extends its
\* predecessor (locations kept, scalars unchanged, containers only gaining
\* children) and either adds exactly one value or equals its predecessor, and
\* the snapshots equal to their predecessor are as many as the closing
\* delimiters of the text.
C37_MonotoneGrowth ==
  (Finished /\ WellFormed(input) /\ DistinctKeys(JSONParse(input).val))
    => /\ Snapshots # <<>>
       /\ Size(Snapshots[1]) = 1
       /\ \A k \in 2..Len(Snapshots) :
            /\ Extends(Snapshots[k - 1], Snapshots[k])
            /\ \/ Snapshots[k] = Snapshots[k - 1]
               \/ Size(Snapshots[k]) = Size(Snapshots[k - 1]) + 1
       /\ Cardinality(Repeats) = Containers(JSONParse(input).val)

\* A nested document was parsed to its end: {"a":[1]} has five snapshots.
C37_Witness ==
  /\ Finished /\ WellFormed(input) /\ DistinctKeys(JSONParse(input).val)
  /\ Len(Snapshots) = 5
  /\ Size(LastSnapshot) = 3
  /\ Cardinality(Repeats) = 2

\* The context ctx holds a pending key.
HoldsKey(ctx) == ctx.key # Undefined

\* The object context at depth d was waiting for the value of its pending
\* key, and after the step it no longer is: the value was placed.
PlacedAt(d) ==
  /\ parser.stack[d].type = "object" /\ parser.stack[d].state = "expectValue"
  /\ d <= Len(parser'.stack) => parser'.stack[d].state # "expectValue"

\* C39: in every state of the tokenizer, an object context holds a pending
\* key exactly when its state is expectColon or expectValue and an array
\* context holds none; and the placement of a value in an object stores it
\* under the pending key and clears the key.
C39_PendingKey ==
  /\ [](\A d \in 1..Len(parser.stack) :
          LET ctx == parser.stack[d]
          IN IF ctx.type = "object"
             THEN HoldsKey(ctx) <=> ctx.state \in {"expectColon", "expectValue"}
             ELSE ~HoldsKey(ctx))
  /\ [][\A ch \in Alphabet : \A d \in 1..Len(parser.stack) :
          (FeedsChar(ch) /\ thrown' = "" /\ PlacedAt(d))
            => /\ IndexOf(parser'.heap[parser.stack[d].value].k,
                          ToStringChars(parser.heap, parser.stack[d].key)) > 0
               /\ d <= Len(parser'.stack) => ~HoldsKey(parser'.stack[d])]_vars

\* The value of the pending key "a" was placed and the object is waiting for
\* a comma or its end, while an array nested in it is open.
C39_Witness ==
  /\ thrown = ""
  /\ Len(parser.stack) = 2
  /\ parser.stack[1].type = "object" /\ parser.stack[1].state = "expectCommaOrEnd"
  /\ ~HoldsKey(parser.stack[1])
  /\ parser.heap[parser.stack[1].value].k = << <<"a">> >>
  /\ parser.stack[2].type = "array"

(***************************************************************************)
(* JSONPointerParser on its own.  A pointer parser is constructed for a    *)
(* pointer, with or without structural-completion filtering; its owner     *)
(* reports closed containers (MarkStructureClosed) and asks for the new    *)
(* completed values of some data (GetNewCompletedValues).  The data are    *)
(* trees whose containers carry their identity, since the closed-set holds *)
(* the containers by reference.                                            *)
(***************************************************************************)
MaxQueries == 2

\* The container `value`, with identity id.
Identified(value, id) == [value EXCEPT !.n = id]

\* [0, false, "", 1]; [null, "x"]; {"a": [{"b": 1}]}; {"a": [{"b": 1}, 2]}
MatcherData == {
  Identified(Arr(<<Num(0), False, Str(<<>>), Num(1)>>), 1),
  Identified(Arr(<<Null, Str(<<"x">>)>>), 1),
  Identified(Obj(<< <<"a">> >>,
    << Identified(Arr(<< Identified(Obj(<< <<"b">> >>, <<Num(1)>>), 3) >>), 2) >>), 1),
  Identified(Obj(<< <<"a">> >>,
    << Identified(Arr(<< Identified(Obj(<< <<"b">> >>, <<Num(1)>>), 3), Num(2) >>), 2) >>), 1) }

MatcherIds == 1..3

MatcherPointers == {
  <<>>,
  <<"/", "0">>,
  <<"/", "2">>,
  <<"/", "*">>,
  <<"/", "a">>,
  <<"/", "a", "/", "0">>,
  <<"/", "l", "e", "n", "g", "t", "h">> }

InitMatcher ==
  /\ parser = NewIncrementalParser
  /\ input = <<>>
  /\ pending = <<>>
  /\ thrown = ""
  /\ ended = FALSE
  /\ drained = <<>>
  /\ NewStreamingJsonParser(<<>>)
  /\ \E pointer \in MatcherPointers, gated \in BOOLEAN :
       matcher = [pp |-> NewJSONPointerParser(parseJsonPointer(pointer).path, gated),
                  queries |-> <<>>, thrown |-> ""]

\* parser.markStructureClosed(closedStructure) for the container with identity id.
MarkStructureClosed(id) ==
  /\ matcher.thrown = ""
  /\ matcher' = [matcher EXCEPT !.pp = markStructureClosed(@, Ref(id))]
  /\ UNCHANGED <<tokenizerVars, sessionVars>>

\* parser.getNewCompletedValues(data)
GetNewCompletedValues(data) ==
  /\ matcher.thrown = ""
  /\ Len(matcher.queries) < MaxQueries
  /\ matcher' = [pp |-> getNewCompletedValues(matcher.pp, data).pp,
                 queries |-> Append(matcher.queries,
                               [data |-> data,
                                list |-> getNewCompletedValues(matcher.pp, data).list]),
                 thrown |-> getNewCompletedValues(matcher.pp, data).thrown]
  /\ UNCHANGED <<tokenizerVars, sessionVars>>

NextMatcher ==
  \/ \E id \in MatcherIds : MarkStructureClosed(id)
  \/ \E data \in MatcherData : GetNewCompletedValues(data)

SpecMatcher == InitMatcher /\ [][NextMatcher]_vars

(***************************************************************************)
(* Claims about the pointer parser (specification SpecMatcher)             *)
(***************************************************************************)
\* The values the pointer of the matcher selects in data.
Extracted(data) == extractValues(matcher.pp.parsedPath, data)

\* No absent-value marker (undefined) anywhere in value.
RECURSIVE NoAbsent(_)
NoAbsent(value) ==
  /\ value # Undefined
  /\ \A i \in 1..Len(value.c) : NoAbsent(value.c[i])

\* C22: every value the pointer selects in the data of a query that holds no
\* absent-value marker (so every scalar: string, number, boolean, null) is
\* value-complete, and the first query of a pointer parser without
\* structural-completion filtering returns it.
C22_WholeTreesAreComplete ==
  \A i \in 1..Len(matcher.queries) :
    LET q == matcher.queries[i]
    IN \A j \in 1..Len(Extracted(q.data)) :
         LET v == Extracted(q.data)[j]
         IN NoAbsent(v) =>
              /\ isComplete(v)
              /\ (i = 1 /\ ~matcher.pp.waitForStructuralCompletion)
                   => \E k \in 1..Len(q.list) : q.list[k] = v

\* C23: without structural-completion filtering, a getNewCompletedValues call
\* on data equal to the data of the call before it returns the empty list.
C23_NoReEmission ==
  \A i \in 2..Len(matcher.queries) :
    (/\ ~matcher.pp.waitForStructuralCompletion
     /\ matcher.queries[i].data = matcher.queries[i - 1].data)
      => matcher.queries[i].list = <<>>

\* value and every value nested in it.
RECURSIVE Subtrees(_)
Subtrees(value) ==
  {value} \cup UNION {Subtrees(value.c[i]) : i \in 1..Len(value.c)}

\* Some container of value (value itself or one nested in it) is absent from
\* the closed-set.
HasOpenContainer(value, closedStructures) ==
  \E w \in Subtrees(value) : IsContainer(w) /\ ~IsClosed(w, closedStructures)

\* C25: for every value of the data queried and the closed-set of the pointer
\* parser, isStructurallyComplete implies isComplete, and a value with a
\* container absent from the closed-set is not structurally complete; so every
\* container a query with structural-completion filtering returned is
\* value-complete and closed with every container nested in it.
C25_StructuralImpliesComplete ==
  \A i \in 1..Len(matcher.queries) :
    LET q == matcher.queries[i]
        closed == matcher.pp.closedStructures
    IN /\ \A v \in Subtrees(q.data) :
            /\ isStructurallyComplete(v, closed) => isComplete(v)
            /\ HasOpenContainer(v, closed) => ~isStructurallyComplete(v, closed)
       /\ matcher.pp.waitForStructuralCompletion =>
            \A k \in 1..Len(q.list) :
              isComplete(q.list[k]) /\ ~HasOpenContainer(q.list[k], closed)

\* A query with structural-completion filtering returned a container that
\* holds a container.
C25_Witness ==
  /\ matcher.pp.waitForStructuralCompletion
  /\ \E i \in 1..Len(matcher.queries) :
       \E k \in 1..Len(matcher.queries[i].list) :
         LET v == matcher.queries[i].list[k]
         IN IsContainer(v) /\ \E j \in 1..Len(v.c) : IsContainer(v.c[j])

\* C33: the values the pointer selects in the data of a query are exactly the
\* values located by: a literal segment on an object selects that key if
\* present, a literal segment on an array selects the element at that index if
\* it is a non-negative integer within bounds, '*' on an array selects every
\* element, anything else matches nothing; in depth-first document order.
C33_MatchesAreTheLocated ==
  \A i \in 1..Len(matcher.queries) :
    Extracted(matcher.queries[i].data)
      = Located(matcher.queries[i].data, matcher.pp.parsedPath, 1)

(***************************************************************************)
(* Claims about the gated pointer match of watch (specification SpecCall)  *)
(***************************************************************************)
\* C24: when watch(path) with structural-completion filtering waits for a
\* further fragment, or has returned, every container matching path whose
\* closing delimiter, and that of every container nested in it, its tokenizer
\* has consumed (and whose closes were forwarded to markStructureClosed) has
\* been yielded.
C24_GatedWatchYieldsClosed ==
  \A c \in DOMAIN calls :
    (/\ calls[c].op = "watch" /\ calls[c].gated
     /\ parseJsonPointer(calls[c].pointer).ok
     /\ calls[c].pc \in {"read", "returned"})
      => LET closed == ClosedMatches(calls[c].parser, parseJsonPointer(calls[c].pointer).path)
         IN \A i \in 1..Len(closed) :
              IsContainer(closed[i])
                => \E j \in 1..Len(calls[c].yielded) : calls[c].yielded[j] = closed[i]

(***************************************************************************)
(* Claims about the nodes of select (specification SpecCall)               *)
(***************************************************************************)
\* The locations of value that match path from segment i on, in document
\* order, each with the keys that lead to it (at) and the value there: a
\* literal segment names an own key of an object or an index of an array, and
\* * stands for every index of an array and every key of an object.
RECURSIVE Matched(_, _, _, _)
RECURSIVE MatchedEach(_, _, _, _, _)
MatchedEach(value, j, path, i, at) ==
  IF j > Len(value.c) THEN <<>>
  ELSE Matched(value.c[j], path, i + 1,
               Append(at, IF value.t = "array" THEN NatToChars(j - 1) ELSE value.k[j]))
       \o MatchedEach(value, j + 1, path, i, at)

Matched(value, path, i, at) ==
  IF i > Len(path) THEN << [at |-> at, value |-> value] >>
  ELSE IF path[i] = Star
       THEN IF IsContainer(value) THEN MatchedEach(value, 1, path, i, at) ELSE <<>>
       ELSE IF value.t = "array"
            THEN IF IsIndexKey(path[i]) /\ DigitsValue(path[i]) < Len(value.c)
                 THEN Matched(value.c[DigitsValue(path[i]) + 1], path, i + 1, Append(at, path[i]))
                 ELSE <<>>
            ELSE IF value.t = "object" /\ IndexOf(value.k, path[i]) > 0
                 THEN Matched(value.c[IndexOf(value.k, path[i])], path, i + 1,
                              Append(at, path[i]))
                 ELSE <<>>

\* What node.getValue() returns once getFullResponse has resolved with document.
NodeValue(node, document) ==
  afterFullResponse([NoCall EXCEPT !.op = "getValue", !.pointer = node.s],
                    [kind |-> "value", value |-> document, message |-> "",
                     start |-> FALSE]).result

\* C34: when select(p), for a valid pointer p on a well-formed document, has
\* returned, the nodes it yielded are, in order, the locations of the
\* document that match p with * expanded over every array index and every
\* object key; the path of each node is the pointer of its location (no
\* wildcard left), and getValue() of the node is the value at that location.
C34_NodeNavigation ==
  \A c \in CallIds :
    (/\ calls[c].op = "select" /\ calls[c].pc = "returned"
     /\ WellFormed(reader.text) /\ parseJsonPointer(calls[c].pointer).ok)
      => LET document == JSONParse(reader.text).val
             matched == Matched(document, parseJsonPointer(calls[c].pointer).path, 1, <<>>)
             nodes == calls[c].yielded
         IN /\ Len(nodes) = Len(matched)
            /\ \A i \in 1..Len(nodes) :
                 i <= Len(matched) =>
                   /\ parseJsonPointer(nodes[i].s).ok
                   /\ parseJsonPointer(nodes[i].s).path = matched[i].at
                   /\ NodeValue(nodes[i], document) = matched[i].value

(***************************************************************************)
(* Claims about getFullResponse under interleaving (specification          *)
(* SpecSession)                                                            *)
(***************************************************************************)
\* C35: whenever a getFullResponse call has resolved with a value, whatever
\* calls came before or run beside it, the source text is a complete JSON
\* text and the value is its parse.
C35_FullResponseIsTheWholeParse ==
  \A c \in DOMAIN calls :
    (calls[c].op = "getFullResponse" /\ calls[c].pc = "returned")
      => /\ WellFormed(reader.text)
         /\ calls[c].result = JSONParse(reader.text).val

\* The watch call c waits for its first read and every fragment of the source
\* has been read by others: it was started on a drained session, or the
\* source was drained before its first read.
ReadsDrainedSource(c) ==
  /\ calls[c].op = "watch" /\ calls[c].pc = "read"
  /\ calls[c].parser = NewIncrementalParser
  /\ SourceDone

\* C38: the step of a watch whose first read finds the source drained is its
\* normal completion: it returns without having yielded and without raising,
\* whatever the document that was drained holds at its path.
C38_WatchAfterDrain ==
  [][\A c \in DOMAIN calls :
       (ReadsDrainedSource(c) /\ calls'[c] # calls[c])
         => (/\ calls'[c].pc = "returned"
             /\ calls'[c].yielded = <<>>
             /\ calls'[c].message = ""
             /\ error' = error)]_vars

\* getFullResponse has resolved with a document that has a value at /0, and
\* the watch('/0') started after it has returned without yielding.
C38_Witness ==
  /\ calls[1].op = "getFullResponse" /\ calls[1].pc = "returned"
  /\ calls[2].op = "watch" /\ calls[2].pc = "returned"
  /\ calls[2].parser = NewIncrementalParser
  /\ calls[2].yielded = <<>>
  /\ Located(calls[1].result, parseJsonPointer(calls[2].pointer).path, 1) # <<>>
  /\ calls[2].pointer # <<>>

====
